---- MODULE Spec2Model ----
(***************************************************************************)
(* Blizzard 2.1 ETL: the transform -> load pipeline of IRS 990 filings.    *)
(*                                                                         *)
(*   src/src/etl/transformer.py   IRS990Transformer (metadata, results)    *)
(*   src/src/etl/loader.py        PostgreSQLLoader (one transaction/doc)   *)
(*   src/cli/commands/process_command.py   process_xml_files (the driver)  *)
(*   src/src/db/connection.py, connection_pool.py   transaction(), pool    *)
(*                                                                         *)
(* Python dicts are records whose DOMAIN is the set of keys present; None  *)
(* and SQL NULL are the string NULL; an optional dict (a function that     *)
(* returns a dict or None) is a sequence of length one or zero.            *)
(***************************************************************************)
EXTENDS Integers, Sequences, FiniteSets, TLC

VARIABLES
    db,           \* the committed content of the six tables
    tx,           \* the content seen by the loader's connection (uncommitted)
    group_seq,    \* last value handed out by repeating_groups.group_id SERIAL
    batch_size,   \* PostgreSQLLoader.batch_size / extractor batch size
    pc,           \* position of PostgreSQLLoader.load / _load_filing
    queue,        \* processed_data_list still to be loaded by load()
    cur,          \* processed_data of the document being loaded (<<>> if none)
    results,      \* the list load() is building / has returned
    loads,        \* number of _load_filing calls started so far
    faults,       \* number of database faults injected so far
    hist,         \* history: what each load inserted, and its group_id_map
    dpc,          \* position of process_xml_files
    files,        \* all_xml_files still to be batched
    max_files,    \* the max_files argument (0 for None)
    batch,        \* the batch of files being processed
    processed_count, \* process_xml_files' processed_count
    stats,        \* process_xml_files' stats dict
    dispatched,   \* history: files handed to transformer.transform so far
    pool,         \* ConnectionPool._instance and the pools created
    workers,      \* threads running transaction()
    concordance,  \* the concordance file the transformer is constructed with
    transformer,  \* the IRS990Transformer instance: field_ids, data_types, tables, field_loaded
    tpc,          \* position of the transformer: "new", "ready", "failed"
    transformed,  \* history: the documents transformed so far, each with its result
    detector,     \* the RepeatingGroupDetector instance
    search,       \* the detector call in progress: file, frames of the recursion, results
    conversion,    \* a raw value with its declared type, and what each converter made of it
    fieldstore,    \* the field_definitions table and the repeating-group stores in progress
    run,    \* a batch run: BatchProcessor.process_directory or the batch_etl script
    located    \* a location expression, two serializations of one document, the value located in each

loaderVars == <<db, tx, group_seq, batch_size, pc, queue, cur, results, loads, faults, hist>>
driverVars == <<dpc, files, max_files, batch, processed_count, stats, dispatched>>
poolVars == <<pool, workers>>
transformVars == <<concordance, transformer, tpc, transformed>>
detectVars == <<detector, search>>
vars == <<loaderVars, driverVars, poolVars, transformVars, detectVars, conversion, fieldstore, run, located>>

-----------------------------------------------------------------------------
(* Values *)

NULL == "NULL"

\* dict.get(key): None when the key is absent
Get(d, k) == IF k \in DOMAIN d THEN d[k] ELSE NULL

\* dict.get(key, default)
GetDefault(d, k, default) == IF k \in DOMAIN d THEN d[k] ELSE default

\* Python truthiness of an optional string: `if not x`
Falsy(v) == v = NULL \/ v = ""

\* group ids are integers; the null parent reference is 0 (SERIAL ids start at 1)
NoGroup == 0

RECURSIVE SeqToSet(_)
SeqToSet(s) == IF s = <<>> THEN {} ELSE {Head(s)} \cup SeqToSet(Tail(s))

-----------------------------------------------------------------------------
(* Bounds of the model *)

MaxLoads == 3      \* _load_filing calls per behaviour
MaxFaults == 1     \* database faults (lost connection, failed statement) injected
MaxFiles == 2      \* documents found by one process_xml_files run
MaxWorkers == 2    \* threads entering transaction()

BatchSizes == {1, 2}

\* ConnectionPool.__init__(min_conn=1, max_conn=10, ...)
MaxConn == 10

-----------------------------------------------------------------------------
(* Documents.  A document is what the transformer's lookups find in it:    *)
(* the text of the first element matched by each metadata pattern (NULL    *)
(* when no element with text matches), the returnVersion attribute, the    *)
(* located and converted scalar values in concordance order, and the       *)
(* detected groups with, per row, the values extracted for the group's     *)
(* table fields.                                                           *)

Slots(t, n, b, d) == [text_value |-> t, numeric_value |-> n, boolean_value |-> b, date_value |-> d]

Val(field_id, slots) == [field_id |-> field_id] @@ slots

RawBase ==
    [file |-> "a.xml", wellformed |-> TRUE,
     EIN |-> "123456789", TaxPeriodEndDt |-> "2020-12-31", ReturnTypeCd |-> "990",
     returnVersion |-> "2020v1.0", ReturnTs |-> "2021-05-01",
     BusinessNameLine1Txt |-> "Acme", AddressLine1Txt |-> "1 Main St",
     AddressLine2Txt |-> NULL, CityNm |-> "Austin", StateAbbreviationCd |-> "TX",
     ZIPCd |-> "73301", CountryCd |-> NULL, WebsiteAddressTxt |-> NULL,
     scalars |-> << Val(1, Slots(NULL, "1000000", NULL, NULL)),
                    Val(2, Slots("mission", NULL, NULL, NULL)) >>,
     groups |-> << >>]

\* the same filing again: no version, no timestamp, no name, another city
RawAmended ==
    [RawBase EXCEPT !.file = "a2.xml", !.returnVersion = NULL, !.ReturnTs = NULL,
                    !.BusinessNameLine1Txt = NULL, !.CityNm = "Boston",
                    !.scalars = << Val(1, Slots("n/a", NULL, NULL, NULL)) >>]

\* another organization, with a two-row Officers group
RawGroups ==
    [RawBase EXCEPT !.file = "b.xml", !.EIN = "987654321", !.BusinessNameLine1Txt = "Bolt",
                    !.scalars = << >>,
                    !.groups = << [table_name |-> "officers", xpath |-> "/Return/ReturnData/Officers",
                                   rows |-> << << Val(3, Slots("Ann", NULL, NULL, NULL)) >>,
                                               << Val(3, Slots("Bob", NULL, NULL, NULL)) >> >>] >>]

\* a flat document: required metadata only
RawFlat ==
    [RawBase EXCEPT !.file = "c.xml", !.TaxPeriodEndDt = "FY2019", !.scalars = << >>,
                    !.BusinessNameLine1Txt = NULL, !.AddressLine1Txt = NULL, !.CityNm = NULL,
                    !.StateAbbreviationCd = NULL, !.ZIPCd = NULL]

RawNoEIN == [RawBase EXCEPT !.file = "d.xml", !.EIN = NULL]
RawNoPeriod == [RawBase EXCEPT !.file = "e.xml", !.TaxPeriodEndDt = NULL]
RawNoType == [RawBase EXCEPT !.file = "f.xml", !.ReturnTypeCd = ""]
RawMalformed == [RawBase EXCEPT !.file = "g.xml", !.wellformed = FALSE]

GoodDocs == {RawBase, RawAmended, RawGroups, RawFlat}
BadDocs == {RawNoEIN, RawNoPeriod, RawNoType, RawMalformed}
RawDocs == GoodDocs \cup BadDocs

-----------------------------------------------------------------------------
(* IRS990Transformer *)

\* int(tax_period.split('-')[0]), None on ValueError
TaxYear(tax_period) ==
    CASE tax_period = "2020-12-31" -> "2020"
      [] tax_period = "2021-12-31" -> "2021"
      [] OTHER -> NULL

\* filing_id = f"{ein}_{tax_period}_{form_type}"
FilingId(ein, tax_period, form_type) ==
    ein \o "_" \o tax_period \o "_" \o form_type

\* (mutant) the file name becomes part of the filing id
ExtractMetadataFileInId(x) ==
    IF Falsy(x.EIN) \/ Falsy(x.TaxPeriodEndDt) \/ Falsy(x.ReturnTypeCd)
    THEN << >>
    ELSE << [filing_id |-> FilingId(x.EIN, x.TaxPeriodEndDt, x.ReturnTypeCd) \o "_" \o x.file,
             ein |-> x.EIN,
             tax_period |-> x.TaxPeriodEndDt,
             form_type |-> x.ReturnTypeCd,
             form_version |-> IF Falsy(x.returnVersion) THEN "Unknown" ELSE x.returnVersion,
             tax_year |-> TaxYear(x.TaxPeriodEndDt),
             submission_date |-> x.ReturnTs,
             object_id |-> x.file] >>

\* (mutant) a missing required field is reported and the extraction goes on
ExtractMetadataLenient(x) ==
    << [filing_id |-> FilingId(x.EIN, x.TaxPeriodEndDt, x.ReturnTypeCd),
        ein |-> x.EIN,
        tax_period |-> x.TaxPeriodEndDt,
        form_type |-> x.ReturnTypeCd,
        form_version |-> IF Falsy(x.returnVersion) THEN "Unknown" ELSE x.returnVersion,
        tax_year |-> TaxYear(x.TaxPeriodEndDt),
        submission_date |-> x.ReturnTs,
        object_id |-> x.file] >>

\* _extract_metadata: <<>> when it raises XMLProcessingError
ExtractMetadata(x) ==
    IF Falsy(x.EIN) \/ Falsy(x.TaxPeriodEndDt) \/ Falsy(x.ReturnTypeCd)
    THEN << >>
    ELSE << [filing_id |-> FilingId(x.EIN, x.TaxPeriodEndDt, x.ReturnTypeCd),
             ein |-> x.EIN,
             tax_period |-> x.TaxPeriodEndDt,
             form_type |-> x.ReturnTypeCd,
             form_version |-> IF Falsy(x.returnVersion) THEN "Unknown" ELSE x.returnVersion,
             tax_year |-> TaxYear(x.TaxPeriodEndDt),
             submission_date |-> x.ReturnTs,
             object_id |-> x.file] >>

ExtractOrganizationInfo(x, ein) ==
    [ein |-> ein,
     name |-> x.BusinessNameLine1Txt,
     address_line1 |-> x.AddressLine1Txt,
     address_line2 |-> x.AddressLine2Txt,
     city |-> x.CityNm,
     state |-> x.StateAbbreviationCd,
     zip |-> x.ZIPCd,
     country |-> IF Falsy(x.CountryCd) THEN "US" ELSE x.CountryCd,
     website |-> x.WebsiteAddressTxt]

\* _extract_filing_values: one row per located value, tagged with the filing
ExtractFilingValues(x, filing_id) ==
    [i \in 1..Len(x.scalars) |-> [filing_id |-> filing_id] @@ x.scalars[i]]

RECURSIVE Flatten(_)
Flatten(ss) == IF ss = << >> THEN << >> ELSE Head(ss) \o Flatten(Tail(ss))

\* _process_repeating_groups: group_id counts 1, 2, ... within the document;
\* the values of all rows of a group follow each other, tagged with group_id
ProcessRepeatingGroups(x, filing_id) ==
    [repeating_groups |->
        [g \in 1..Len(x.groups) |->
            [group_id |-> g, filing_id |-> filing_id,
             name |-> x.groups[g].table_name, xpath |-> x.groups[g].xpath]],
     group_values |->
        Flatten([g \in 1..Len(x.groups) |->
            LET vals == Flatten(x.groups[g].rows)
            IN [i \in 1..Len(vals) |-> [group_id |-> g] @@ vals[i]]])]

\* the hash of the serialized tree: one per file content
XmlHash(x) == "sha256:" \o x.file

\* _process_xml_file: <<>> (None) on any exception, else the result dict
ProcessXmlFile(x) ==
    IF ~x.wellformed THEN << >>
    ELSE LET m == ExtractMetadata(x) IN
         IF m = << >> THEN << >>
         ELSE LET metadata == m[1]
                  rg == ProcessRepeatingGroups(x, metadata.filing_id)
              IN << [metadata |-> metadata,
                     organization |-> ExtractOrganizationInfo(x, metadata.ein),
                     filing_values |-> ExtractFilingValues(x, metadata.filing_id),
                     repeating_groups |-> rg.repeating_groups,
                     group_values |-> rg.group_values,
                     xml_hash |-> XmlHash(x)] >>

\* IRS990Transformer.transform: the results of the files that did not fail
RECURSIVE Transform(_)
Transform(xml_files) ==
    IF xml_files = << >> THEN << >>
    ELSE ProcessXmlFile(Head(xml_files)) \o Transform(Tail(xml_files))

-----------------------------------------------------------------------------
(* The relational store.  A table is the set of its rows; the timestamp    *)
(* columns (last_updated_timestamp, processed_timestamp, storage_date) are *)
(* left out.                                                               *)

EmptyStore ==
    [organizations |-> {}, filings |-> {}, filing_values |-> {},
     repeating_groups |-> {}, repeating_group_values |-> {}, xml_metadata |-> {}]

\* SQL COALESCE(a, b)
Coalesce(a, b) == IF a # NULL THEN a ELSE b

OrgAttrs == {"name", "address_line1", "address_line2", "city", "state", "zip", "country", "website"}

\* the outcome of a step on a connection: it raised, or the connection's new content
Raised(conn) == [raised |-> TRUE, conn |-> conn]
Done(conn) == [raised |-> FALSE, conn |-> conn]

KeyOf(row, key) == [k \in key |-> row[k]]

\* (mutant) DO UPDATE SET column = COALESCE(EXCLUDED.column, column): a slot the
\* new row leaves null keeps the stored value
UpsertCoalesce(table, rows, key) ==
    IF \E i, j \in 1..Len(rows) : i # j /\ KeyOf(rows[i], key) = KeyOf(rows[j], key)
    THEN [raised |-> TRUE, table |-> table]
    ELSE [raised |-> FALSE,
          table |-> {r \in table : \A i \in 1..Len(rows) : KeyOf(r, key) # KeyOf(rows[i], key)}
                    \cup {IF \E r \in table : KeyOf(r, key) = KeyOf(rows[i], key)
                          THEN LET old == CHOOSE r \in table : KeyOf(r, key) = KeyOf(rows[i], key)
                               IN [c \in DOMAIN rows[i] |->
                                    IF c \in key THEN rows[i][c]
                                    ELSE Coalesce(rows[i][c], old[c])]
                          ELSE rows[i] : i \in 1..Len(rows)}]

\* One INSERT ... VALUES rows ON CONFLICT (key) DO UPDATE SET <all other columns>
\* = EXCLUDED.<column>.  PostgreSQL rejects the statement (cardinality_violation:
\* "ON CONFLICT DO UPDATE command cannot affect row a second time") when two
\* of the proposed rows have the same key; otherwise every proposed row replaces
\* the stored row of its key.
UpsertStatement(table, rows, key) ==
    IF \E i, j \in 1..Len(rows) : i # j /\ KeyOf(rows[i], key) = KeyOf(rows[j], key)
    THEN [raised |-> TRUE, table |-> table]
    ELSE [raised |-> FALSE,
          table |-> {r \in table : \A i \in 1..Len(rows) : KeyOf(r, key) # KeyOf(rows[i], key)}
                    \cup SeqToSet(rows)]

Min(a, b) == IF a < b THEN a ELSE b

\* (mutant) a connection in autocommit mode: every statement is committed as
\* it runs, so a rollback undoes nothing
RollbackAutocommit(committed, conn) == conn

\* conn.rollback(): the statements since the last commit are undone, so the
\* connection shows the committed content again and the store keeps it
Rollback(committed, conn) == committed

\* conn.commit(): the connection's content becomes the committed content
Commit(committed, conn) == conn

-----------------------------------------------------------------------------
(* PostgreSQLLoader *)

\* _load_organization
LoadOrganization(conn, organization) ==
    LET ein == Get(organization, "ein") IN
    IF Falsy(ein) THEN Raised(conn)
    ELSE IF \E r \in conn.organizations : r.ein = ein
    THEN Done([conn EXCEPT !.organizations =
            {IF r.ein = ein
             THEN [c \in DOMAIN r |->
                      IF c \in OrgAttrs THEN Coalesce(Get(organization, c), r[c]) ELSE r[c]]
             ELSE r : r \in @}])
    ELSE \* INSERT; ein is the PRIMARY KEY, which the SELECT has found free
         Done([conn EXCEPT !.organizations = @ \cup
            {[ein |-> ein,
              name |-> Get(organization, "name"),
              address_line1 |-> Get(organization, "address_line1"),
              address_line2 |-> Get(organization, "address_line2"),
              city |-> Get(organization, "city"),
              state |-> Get(organization, "state"),
              zip |-> Get(organization, "zip"),
              country |-> GetDefault(organization, "country", "US"),
              website |-> Get(organization, "website")]}])

\* _load_filing_record
LoadFilingRecord(conn, metadata) ==
    LET filing_id == Get(metadata, "filing_id")
        ein == Get(metadata, "ein")
    IN
    IF Falsy(filing_id) \/ Falsy(ein) THEN Raised(conn)
    ELSE IF \E r \in conn.filings : r.filing_id = filing_id
    THEN Done([conn EXCEPT !.filings =
            {IF r.filing_id = filing_id
             THEN [r EXCEPT !.object_id = Get(metadata, "object_id"),
                            !.form_version = Get(metadata, "form_version"),
                            !.tax_year = Get(metadata, "tax_year")]
             ELSE r : r \in @}])
    ELSE \* INSERT; filing_id is the PRIMARY KEY, which the SELECT has found free
         Done([conn EXCEPT !.filings = @ \cup
            {[filing_id |-> filing_id,
              object_id |-> Get(metadata, "object_id"),
              ein |-> ein,
              tax_period |-> Get(metadata, "tax_period"),
              form_type |-> Get(metadata, "form_type"),
              form_version |-> Get(metadata, "form_version"),
              tax_year |-> Get(metadata, "tax_year"),
              submission_date |-> Get(metadata, "submission_date")]}])

\* the tuple _load_filing_values builds for one value
FilingValueRow(value) ==
    [filing_id |-> value.filing_id,
     field_id |-> value.field_id,
     text_value |-> Get(value, "text_value"),
     numeric_value |-> Get(value, "numeric_value"),
     boolean_value |-> Get(value, "boolean_value"),
     date_value |-> Get(value, "date_value")]

\* the batch loop of _load_filing_values: one upsert statement per batch
RECURSIVE FilingValueBatches(_, _, _)
FilingValueBatches(table, filing_values, n) ==
    IF filing_values = << >> THEN [raised |-> FALSE, table |-> table]
    ELSE LET k == Min(n, Len(filing_values))
             batch_values == [i \in 1..k |-> FilingValueRow(filing_values[i])]
             st == UpsertStatement(table, batch_values, {"filing_id", "field_id"})
         IN IF st.raised THEN st
            ELSE FilingValueBatches(st.table, SubSeq(filing_values, k + 1, Len(filing_values)), n)

\* _load_filing_values
LoadFilingValues(conn, filing_values, n) ==
    LET r == FilingValueBatches(conn.filing_values, filing_values, n) IN
    IF r.raised THEN Raised(conn)
    ELSE Done([conn EXCEPT !.filing_values = r.table])

\* group.get('parent_group_id') as _load_repeating_groups passes it to the INSERT
ParentRef(group, group_id_map) ==
    IF "parent_group_id" \in DOMAIN group THEN group.parent_group_id ELSE NoGroup

\* (mutant) a group loop that looks for a stored group of the same filing,
\* name and xpath first and reuses it
RECURSIVE InsertGroupsMatched(_, _, _, _)
InsertGroupsMatched(table, repeating_groups, seq, group_id_map) ==
    IF repeating_groups = << >>
    THEN [raised |-> FALSE, table |-> table, seq |-> seq, group_id_map |-> group_id_map]
    ELSE LET group == Head(repeating_groups)
             stored == {r \in table : /\ r.filing_id = group.filing_id
                                      /\ r.name = Get(group, "name")
                                      /\ r.xpath = Get(group, "xpath")}
             db_group_id == seq + 1
         IN IF stored # {}
            THEN InsertGroupsMatched(table, Tail(repeating_groups), seq,
                    (group.group_id :> (CHOOSE r \in stored : TRUE).group_id) @@ group_id_map)
            ELSE InsertGroupsMatched(
                    table \cup {[group_id |-> db_group_id,
                                 filing_id |-> group.filing_id,
                                 parent_group_id |-> ParentRef(group, group_id_map),
                                 name |-> Get(group, "name"),
                                 xpath |-> Get(group, "xpath")]},
                    Tail(repeating_groups),
                    db_group_id,
                    (group.group_id :> db_group_id) @@ group_id_map)

\* the group loop of _load_repeating_groups: every group is inserted under the
\* next value of the group_id sequence, which group_id_map remembers for the
\* group's client-side id.  parent_group_id REFERENCES repeating_groups(group_id):
\* an INSERT whose parent is not a stored group raises.
RECURSIVE InsertGroups(_, _, _, _)
InsertGroups(table, repeating_groups, seq, group_id_map) ==
    IF repeating_groups = << >>
    THEN [raised |-> FALSE, table |-> table, seq |-> seq, group_id_map |-> group_id_map]
    ELSE LET group == Head(repeating_groups)
             parent == ParentRef(group, group_id_map)
             db_group_id == seq + 1
         IN IF parent # NoGroup /\ ~\E r \in table : r.group_id = parent
            THEN [raised |-> TRUE, table |-> table, seq |-> db_group_id,
                  group_id_map |-> group_id_map]
            ELSE InsertGroups(
                    table \cup {[group_id |-> db_group_id,
                                 filing_id |-> group.filing_id,
                                 parent_group_id |-> parent,
                                 name |-> Get(group, "name"),
                                 xpath |-> Get(group, "xpath")]},
                    Tail(repeating_groups),
                    db_group_id,
                    (group.group_id :> db_group_id) @@ group_id_map)

\* (mutant) a value whose group id is not in the map is written under its
\* client-side group id
GroupValueRowRaw(value, group_id_map) ==
    << [group_id |-> IF value.group_id \in DOMAIN group_id_map
                     THEN group_id_map[value.group_id] ELSE value.group_id,
        field_id |-> value.field_id,
        text_value |-> Get(value, "text_value"),
        numeric_value |-> Get(value, "numeric_value"),
        boolean_value |-> Get(value, "boolean_value"),
        date_value |-> Get(value, "date_value")] >>

\* the tuple _load_repeating_groups builds for one value: none (the value is
\* skipped with a warning) when its client-side group id is not in the map
GroupValueRow(value, group_id_map) ==
    IF value.group_id \notin DOMAIN group_id_map THEN << >>
    ELSE << [group_id |-> group_id_map[value.group_id],
             field_id |-> value.field_id,
             text_value |-> Get(value, "text_value"),
             numeric_value |-> Get(value, "numeric_value"),
             boolean_value |-> Get(value, "boolean_value"),
             date_value |-> Get(value, "date_value")] >>

\* the batch loop of _load_repeating_groups: one upsert statement per batch
\* that has at least one mapped value
RECURSIVE GroupValueBatches(_, _, _, _)
GroupValueBatches(table, group_values, group_id_map, n) ==
    IF group_values = << >> THEN [raised |-> FALSE, table |-> table]
    ELSE LET k == Min(n, Len(group_values))
             batch_values == Flatten([i \in 1..k |-> GroupValueRow(group_values[i], group_id_map)])
             st == IF batch_values = << >> THEN [raised |-> FALSE, table |-> table]
                   ELSE UpsertStatement(table, batch_values, {"group_id", "field_id"})
         IN IF st.raised THEN st
            ELSE GroupValueBatches(st.table, SubSeq(group_values, k + 1, Len(group_values)),
                                   group_id_map, n)

\* (mutant) a loader that takes a document without groups for a failure
LoadRepeatingGroupsRequired(conn, repeating_groups, group_values, seq, n) ==
    IF repeating_groups = << >>
    THEN [raised |-> TRUE, conn |-> conn, seq |-> seq, group_id_map |-> << >>]
    ELSE LET g == InsertGroups(conn.repeating_groups, repeating_groups, seq, << >>)
             v == GroupValueBatches(conn.repeating_group_values, group_values,
                                    g.group_id_map, n)
         IN [raised |-> g.raised \/ v.raised,
             conn |-> [conn EXCEPT !.repeating_groups = g.table,
                                   !.repeating_group_values = v.table],
             seq |-> g.seq,
             group_id_map |-> g.group_id_map]

\* _load_repeating_groups; besides the connection it reports the sequence value
\* reached and the group_id_map it built
LoadRepeatingGroups(conn, repeating_groups, group_values, seq, n) ==
    IF repeating_groups = << >>
    THEN [raised |-> FALSE, conn |-> conn, seq |-> seq, group_id_map |-> << >>]
    ELSE LET g == InsertGroups(conn.repeating_groups, repeating_groups, seq, << >>) IN
         IF g.raised
         THEN [raised |-> TRUE, conn |-> conn, seq |-> g.seq, group_id_map |-> g.group_id_map]
         ELSE LET v == GroupValueBatches(conn.repeating_group_values, group_values,
                                         g.group_id_map, n)
              IN [raised |-> v.raised,
                  conn |-> [conn EXCEPT !.repeating_groups = g.table,
                                        !.repeating_group_values = v.table],
                  seq |-> g.seq,
                  group_id_map |-> g.group_id_map]

\* _store_xml_metadata
StoreXmlMetadata(conn, filing_id, xml_hash) ==
    IF \E r \in conn.xml_metadata : r.filing_id = filing_id
    THEN Done([conn EXCEPT !.xml_metadata =
            {IF r.filing_id = filing_id THEN [r EXCEPT !.xml_hash = xml_hash] ELSE r : r \in @}])
    ELSE Done([conn EXCEPT !.xml_metadata = @ \cup {[filing_id |-> filing_id, xml_hash |-> xml_hash]}])

-----------------------------------------------------------------------------
(* Inputs handed to PostgreSQLLoader.load directly (as the unit tests do)   *)

BaseFilingId == FilingId(RawBase.EIN, RawBase.TaxPeriodEndDt, RawBase.ReturnTypeCd)

\* a nested group (local id 2 under local id 1), two rows of group 1 with the
\* same field, and a value whose group id names no group of the document
DirectNested ==
    [metadata |-> [filing_id |-> "555555555_2021-12-31_990", ein |-> "555555555",
                   object_id |-> "n.xml", tax_period |-> "2021-12-31", form_type |-> "990",
                   form_version |-> "2021v1.0", tax_year |-> "2021",
                   submission_date |-> "2022-05-01"],
     organization |-> [ein |-> "555555555", name |-> "Nest"],
     filing_values |-> << >>,
     repeating_groups |->
        << [group_id |-> 1, filing_id |-> "555555555_2021-12-31_990",
            name |-> "grants", xpath |-> "/Return/ReturnData/Grants"],
           [group_id |-> 2, filing_id |-> "555555555_2021-12-31_990", parent_group_id |-> 1,
            name |-> "payments", xpath |-> "/Return/ReturnData/Grants/Grant/Payments"] >>,
     group_values |->
        << [group_id |-> 1, field_id |-> 3, instance_index |-> 0, text_value |-> "Ann"],
           [group_id |-> 2, field_id |-> 4, instance_index |-> 0, numeric_value |-> "10"],
           [group_id |-> 1, field_id |-> 3, instance_index |-> 1, text_value |-> "Bob"],
           [group_id |-> 9, field_id |-> 3, instance_index |-> 0, text_value |-> "Eve"] >>,
     xml_hash |-> "sha256:n.xml"]

\* the filing of RawBase again, with most attributes absent
DirectPartial ==
    [metadata |-> [filing_id |-> BaseFilingId, ein |-> RawBase.EIN,
                   tax_period |-> RawBase.TaxPeriodEndDt, form_type |-> RawBase.ReturnTypeCd],
     organization |-> [ein |-> RawBase.EIN, name |-> NULL, website |-> "acme.org"],
     filing_values |->
        << [filing_id |-> BaseFilingId, field_id |-> 2, numeric_value |-> "5"] >>]

\* no filing_id
DirectNoId ==
    [metadata |-> [ein |-> RawBase.EIN],
     organization |-> [ein |-> RawBase.EIN]]

DirectDocs == {DirectNested, DirectPartial, DirectNoId}

-----------------------------------------------------------------------------
(* PostgreSQLLoader.load and _load_filing, one action per step.  A step     *)
(* that raises runs the except clause of _load_filing (rollback, raise      *)
(* DatabaseError) and the except clause of load (append an error result,    *)
(* go on with the next document).  Besides the errors the code raises       *)
(* itself, any statement may fail in the database (fault).                  *)

FaultChoices == IF faults < MaxFaults THEN {FALSE, TRUE} ELSE {FALSE}

Doc == cur[1]
Metadata == GetDefault(Doc, "metadata", << >>)

\* (mutant) a load that swallows the exception and reports the document as loaded
ErrorResultSwallowed(processed_data, msg) ==
    [status |-> "success",
     filing_id |-> GetDefault(GetDefault(processed_data, "metadata", << >>), "filing_id", "unknown"),
     filing_values_count |-> Len(GetDefault(processed_data, "filing_values", << >>)),
     repeating_groups_count |-> Len(GetDefault(processed_data, "repeating_groups", << >>)),
     group_values_count |-> Len(GetDefault(processed_data, "group_values", << >>))]

\* the result load appends in its except clause
ErrorResult(processed_data, msg) ==
    [status |-> "error", error |-> msg,
     filing_id |-> GetDefault(GetDefault(processed_data, "metadata", << >>), "filing_id", "unknown")]

SuccessResult(processed_data) ==
    [status |-> "success",
     filing_id |-> processed_data.metadata.filing_id,
     filing_values_count |-> Len(GetDefault(processed_data, "filing_values", << >>)),
     repeating_groups_count |-> Len(GetDefault(processed_data, "repeating_groups", << >>)),
     group_values_count |-> Len(GetDefault(processed_data, "group_values", << >>))]

\* results.append(result); the for loop of load goes on or load returns
NextDocument(result) ==
    /\ results' = Append(results, result)
    /\ cur' = << >>
    /\ pc' = IF queue = << >> THEN "idle" ELSE "begin"

\* except Exception: conn.rollback(); raise DatabaseError -> load's except
Abort(fault, msg) ==
    /\ db' = Rollback(db, tx)
    /\ tx' = Rollback(db, tx)
    /\ faults' = IF fault THEN faults + 1 ELSE faults
    /\ NextDocument(ErrorResult(Doc, msg))
    /\ UNCHANGED queue

\* loader.load(processed_data_list) is entered
StartLoad(processed_data_list) ==
    /\ pc = "idle"
    /\ queue' = processed_data_list
    /\ results' = << >>
    /\ cur' = << >>
    /\ pc' = IF processed_data_list = << >> THEN "idle" ELSE "begin"
    /\ hist' = [hist EXCEPT !.call = processed_data_list]
    /\ UNCHANGED <<db, tx, group_seq, batch_size, loads, faults>>

\* _load_filing up to the first statement: the filing_id check, the
\* connection, SET search_path
BeginLoadFiling ==
    /\ pc = "begin"
    /\ loads' = loads + 1
    /\ LET processed_data == Head(queue)
           filing_id == Get(GetDefault(processed_data, "metadata", << >>), "filing_id")
       IN IF Falsy(filing_id)
          THEN /\ results' = Append(results, ErrorResult(processed_data, "Missing filing_id in metadata"))
               /\ queue' = Tail(queue)
               /\ cur' = << >>
               /\ pc' = IF Tail(queue) = << >> THEN "idle" ELSE "begin"
               /\ UNCHANGED <<tx, faults>>
          ELSE \E fault \in FaultChoices :
               /\ queue' = Tail(queue)
               /\ faults' = IF fault THEN faults + 1 ELSE faults
               /\ tx' = db
               /\ IF fault
                  THEN /\ results' = Append(results, ErrorResult(processed_data, "connection"))
                       /\ cur' = << >>
                       /\ pc' = IF Tail(queue) = << >> THEN "idle" ELSE "begin"
                  ELSE /\ cur' = << processed_data >>
                       /\ pc' = "org"
                       /\ UNCHANGED results
    /\ UNCHANGED <<db, group_seq, batch_size, hist>>
    /\ UNCHANGED <<driverVars, poolVars, transformVars, detectVars, conversion, fieldstore, run, located>>

\* self._load_organization(conn, organization)
LoadOrganizationStep ==
    /\ pc = "org"
    /\ \E fault \in FaultChoices :
        LET r == LoadOrganization(tx, GetDefault(Doc, "organization", << >>)) IN
        IF fault \/ r.raised
        THEN Abort(fault, "organization")
        ELSE /\ tx' = r.conn
             /\ pc' = "filing"
             /\ UNCHANGED <<db, queue, cur, results, faults>>
    /\ UNCHANGED <<group_seq, batch_size, loads, hist, driverVars, poolVars, transformVars, detectVars, conversion, fieldstore, run, located>>

\* self._load_filing_record(conn, metadata)
LoadFilingRecordStep ==
    /\ pc = "filing"
    /\ \E fault \in FaultChoices :
        LET r == LoadFilingRecord(tx, Metadata) IN
        IF fault \/ r.raised
        THEN Abort(fault, "filing")
        ELSE /\ tx' = r.conn
             /\ pc' = "values"
             /\ UNCHANGED <<db, queue, cur, results, faults>>
    /\ UNCHANGED <<group_seq, batch_size, loads, hist, driverVars, poolVars, transformVars, detectVars, conversion, fieldstore, run, located>>

\* self._load_filing_values(conn, filing_values)
LoadFilingValuesStep ==
    /\ pc = "values"
    /\ \E fault \in FaultChoices :
        LET r == LoadFilingValues(tx, GetDefault(Doc, "filing_values", << >>), batch_size) IN
        IF fault \/ r.raised
        THEN Abort(fault, "filing values")
        ELSE /\ tx' = r.conn
             /\ pc' = "groups"
             /\ UNCHANGED <<db, queue, cur, results, faults>>
    /\ UNCHANGED <<group_seq, batch_size, loads, hist, driverVars, poolVars, transformVars, detectVars, conversion, fieldstore, run, located>>

\* what the values of one load were sent as: the client-side group id next to
\* the row built for it
SentValues(group_values, group_id_map) ==
    {[load |-> loads, client |-> group_values[i].group_id,
      row |-> GroupValueRow(group_values[i], group_id_map)[1]] :
        i \in {j \in 1..Len(group_values) : GroupValueRow(group_values[j], group_id_map) # << >>}}

\* self._load_repeating_groups(conn, repeating_groups, group_values)
LoadRepeatingGroupsStep ==
    /\ pc = "groups"
    /\ \E fault \in FaultChoices :
        LET repeating_groups == GetDefault(Doc, "repeating_groups", << >>)
            group_values == GetDefault(Doc, "group_values", << >>)
            r == LoadRepeatingGroups(tx, repeating_groups, group_values, group_seq, batch_size)
        IN /\ group_seq' = r.seq
           /\ hist' = [hist EXCEPT
                        !.maps = (loads :> r.group_id_map) @@ @,
                        !.owner = [id \in (group_seq + 1)..r.seq |-> loads] @@ @,
                        !.values = @ \cup (IF repeating_groups = << >> THEN {}
                                           ELSE SentValues(group_values, r.group_id_map))]
           /\ IF fault \/ r.raised
              THEN Abort(fault, "repeating groups")
              ELSE /\ tx' = r.conn
                   /\ pc' = IF "xml_hash" \in DOMAIN Doc THEN "xml" ELSE "commit"
                   /\ UNCHANGED <<db, queue, cur, results, faults>>
    /\ UNCHANGED <<batch_size, loads, driverVars, poolVars, transformVars, detectVars, conversion, fieldstore, run, located>>

\* self._store_xml_metadata(conn, filing_id, processed_data['xml_hash'])
StoreXmlMetadataStep ==
    /\ pc = "xml"
    /\ \E fault \in FaultChoices :
        LET r == StoreXmlMetadata(tx, Metadata.filing_id, Doc.xml_hash) IN
        IF fault \/ r.raised
        THEN Abort(fault, "xml metadata")
        ELSE /\ tx' = r.conn
             /\ pc' = "commit"
             /\ UNCHANGED <<db, queue, cur, results, faults>>
    /\ UNCHANGED <<group_seq, batch_size, loads, hist, driverVars, poolVars, transformVars, detectVars, conversion, fieldstore, run, located>>

\* conn.commit() and the success result
CommitStep ==
    /\ pc = "commit"
    /\ \E fault \in FaultChoices :
        IF fault
        THEN Abort(fault, "commit") /\ UNCHANGED hist
        ELSE /\ db' = Commit(db, tx)
             /\ hist' = [hist EXCEPT !.committed = Append(@, [load |-> loads, doc |-> Doc, before |-> db])]
             /\ NextDocument(SuccessResult(Doc))
             /\ UNCHANGED <<tx, queue, faults>>
    /\ UNCHANGED <<group_seq, batch_size, loads, driverVars, poolVars, transformVars, detectVars, conversion, fieldstore, run, located>>

-----------------------------------------------------------------------------
(* Spec: the loader is called directly, or through Pipeline.run            *)
(* (transform the batch, load the result)                                  *)

InitLoader ==
    /\ db = EmptyStore
    /\ tx = EmptyStore
    /\ group_seq = 0
    /\ batch_size \in BatchSizes
    /\ pc = "idle"
    /\ queue = << >>
    /\ cur = << >>
    /\ results = << >>
    /\ loads = 0
    /\ faults = 0
    /\ hist = [call |-> << >>, maps |-> << >>, owner |-> << >>, values |-> {}, committed |-> << >>]

InitDriverOff ==
    /\ dpc = "off"
    /\ files = << >>
    /\ max_files = 0
    /\ batch = << >>
    /\ processed_count = 0
    /\ stats = << >>
    /\ dispatched = << >>

InitPoolOff ==
    /\ pool = << >>
    /\ workers = << >>

InitTransformOff ==
    /\ concordance = << >>
    /\ transformer = << >>
    /\ tpc = "off"
    /\ transformed = << >>

InitDetectOff ==
    /\ detector = << >>
    /\ search = << >>

InitConvertOff == conversion = << >>

InitFieldsOff == fieldstore = << >>

InitRunOff == run = << >>

InitLocateOff == located = << >>

Init == InitLoader /\ InitDriverOff /\ InitPoolOff /\ InitTransformOff /\ InitDetectOff /\ InitConvertOff /\ InitFieldsOff /\ InitRunOff /\ InitLocateOff

\* loader.load([processed_data]) with a hand-made document
LoadDirect ==
    /\ loads < MaxLoads
    /\ \E d \in DirectDocs : StartLoad(<< d >>)
    /\ UNCHANGED <<driverVars, poolVars, transformVars, detectVars, conversion, fieldstore, run, located>>

\* the files Pipeline.run is given
PipelineBatches ==
    {<< x >> : x \in RawDocs} \cup {<< RawNoEIN, RawFlat >>, << RawBase, RawBase >>}

\* Pipeline.run: transformer.transform(batch), then loader.load(transformed)
PipelineRun ==
    /\ \E b \in PipelineBatches :
        /\ loads + Len(Transform(b)) <= MaxLoads
        /\ StartLoad(Transform(b))
    /\ UNCHANGED <<driverVars, poolVars, transformVars, detectVars, conversion, fieldstore, run, located>>

Next ==
    \/ LoadDirect
    \/ PipelineRun
    \/ BeginLoadFiling
    \/ LoadOrganizationStep
    \/ LoadFilingRecordStep
    \/ LoadFilingValuesStep
    \/ LoadRepeatingGroupsStep
    \/ StoreXmlMetadataStep
    \/ CommitStep

Spec == Init /\ [][Next]_vars

-----------------------------------------------------------------------------
(* Properties of the loader *)

Committed == {hist.committed[i] : i \in 1..Len(hist.committed)}
LoadsCommitted == {e.load : e \in Committed}

\* the entries of hist.committed for one filing, and the latest of them
CommittedFor(filing_id) ==
    {i \in 1..Len(hist.committed) : hist.committed[i].doc.metadata.filing_id = filing_id}
Latest(S) == CHOOSE i \in S : \A j \in S : j <= i
LastCommittedFor(filing_id) == hist.committed[Latest(CommittedFor(filing_id))]

FilingValuesOf(d) == GetDefault(d, "filing_values", << >>)
GroupsOf(d) == GetDefault(d, "repeating_groups", << >>)
GroupValuesOf(d) == GetDefault(d, "group_values", << >>)

\* the store holds nothing of a load that has not committed
NothingUncommitted ==
    /\ \A r \in db.organizations : \E e \in Committed : e.doc.organization.ein = r.ein
    /\ \A r \in db.filings : CommittedFor(r.filing_id) # {}
    /\ \A r \in db.filing_values : CommittedFor(r.filing_id) # {}
    /\ \A r \in db.xml_metadata : CommittedFor(r.filing_id) # {}
    /\ \A r \in db.repeating_groups : hist.owner[r.group_id] \in LoadsCommitted
    /\ \A r \in db.repeating_group_values : hist.owner[r.group_id] \in LoadsCommitted

\* the store holds every write of a load that has committed (of the latest
\* one where a later load of the same filing overwrites the row)
EverythingCommitted ==
    /\ \A e \in Committed :
        LET d == e.doc
            f == d.metadata.filing_id
            last == LastCommittedFor(f).doc
        IN /\ \E r \in db.organizations : r.ein = d.organization.ein
           /\ \E r \in db.filings : r.filing_id = f
           /\ \A i \in 1..Len(FilingValuesOf(last)) :
                \E r \in db.filing_values :
                    /\ r.filing_id = f
                    /\ r.field_id = FilingValuesOf(last)[i].field_id
           /\ "xml_hash" \in DOMAIN last =>
                [filing_id |-> f, xml_hash |-> last.xml_hash] \in db.xml_metadata
           /\ Cardinality({r \in db.repeating_groups : hist.owner[r.group_id] = e.load})
                = Len(GroupsOf(d))
    /\ \A w \in hist.values :
        w.load \in LoadsCommitted =>
            \E r \in db.repeating_group_values :
                r.group_id = w.row.group_id /\ r.field_id = w.row.field_id

\* C1: every load of a document is all or nothing: the store never holds a row
\* of a load that did not commit (in progress, failed and rolled back), and it
\* holds the organization, the filing, the filing values, the groups, the group
\* values and the XML metadata of every load that committed.
C1_AllOrNothing == NothingUncommitted /\ EverythingCommitted

\* a load that wrote its organization and filing failed later, and another
\* load has committed
C1_Witness ==
    /\ pc = "idle"
    /\ results # << >>
    /\ results[Len(results)].status = "error"
    /\ results[Len(results)].error = "repeating groups"
    /\ group_seq > Cardinality(db.repeating_groups)
    /\ Committed # {}

-----------------------------------------------------------------------------
(* SpecBatch: process_xml_files.  The files found are batched by           *)
(* extractor._batch_files; each batch is transformed, the result is        *)
(* loaded by the loader steps above, and the load results are counted.     *)

\* the first n elements of s, and s without them
Take(s, n) == SubSeq(s, 1, Min(n, Len(s)))
Drop(s, n) == SubSeq(s, Min(n, Len(s)) + 1, Len(s))

\* extractor._find_xml_files: distinct paths, in any order
FileLists ==
    {fs \in UNION {[1..n -> RawDocs] : n \in 1..MaxFiles} :
        \A i, j \in 1..Len(fs) : i # j => fs[i] # fs[j]}

\* the stats dict at its creation, total_files filled in
InitialStats(all_xml_files) ==
    [total_files |-> Len(all_xml_files), processed_files |-> 0, failed_files |-> 0,
     skipped_files |-> 0, processed_values |-> 0, processed_groups |-> 0]

\* for result in load_results: count it as processed or as failed
RECURSIVE UpdateStatistics(_, _)
UpdateStatistics(st, load_results) ==
    IF load_results = << >> THEN st
    ELSE LET result == Head(load_results)
             st1 == IF result.status = "success"
                    THEN [st EXCEPT !.processed_files = @ + 1,
                                    !.processed_values = @ + result.filing_values_count,
                                    !.processed_groups = @ + result.repeating_groups_count]
                    ELSE [st EXCEPT !.failed_files = @ + 1]
         IN UpdateStatistics(st1, Tail(load_results))

\* if max_files and processed_count >= max_files: break
LimitReached == max_files # 0 /\ processed_count >= max_files

\* (mutant) a limit that is looked at between batches only
TruncateNever(b) == b

\* batch = batch[:remaining] when max_files is given
Truncate(b) ==
    IF max_files # 0 /\ max_files - processed_count < Len(b)
    THEN Take(b, max_files - processed_count)
    ELSE b

InitBatch ==
    /\ InitLoader
    /\ InitPoolOff
    /\ InitTransformOff
    /\ InitDetectOff
    /\ InitConvertOff
    /\ InitFieldsOff
    /\ InitRunOff
    /\ InitLocateOff
    /\ dpc = "loop"
    /\ files \in FileLists
    /\ max_files \in 0..MaxFiles
    /\ batch = << >>
    /\ processed_count = 0
    /\ stats = InitialStats(files)
    /\ dispatched = << >>

\* one turn of the for loop up to loader.load: take the next batch,
\* transform it, hand the result to the loader
NextBatch ==
    /\ dpc = "loop"
    /\ files # << >>
    /\ ~LimitReached
    /\ LET b == Truncate(Take(files, batch_size))
       IN /\ batch' = b
          /\ files' = Drop(files, batch_size)
          /\ dispatched' = dispatched \o b
          /\ StartLoad(Transform(b))
    /\ dpc' = "load"
    /\ UNCHANGED <<max_files, processed_count, stats, poolVars, transformVars, detectVars, conversion, fieldstore, run, located>>

\* loader.load has returned: update the statistics, processed_count += len(batch)
CollectStats ==
    /\ dpc = "load"
    /\ pc = "idle"
    /\ stats' = UpdateStatistics(stats, results)
    /\ processed_count' = processed_count + Len(batch)
    /\ dpc' = "loop"
    /\ UNCHANGED <<files, max_files, batch, dispatched, loaderVars, poolVars, transformVars, detectVars, conversion, fieldstore, run, located>>

\* the loop ends (no batch left, or break): return stats
ReturnStats ==
    /\ dpc = "loop"
    /\ files = << >> \/ LimitReached
    /\ dpc' = "done"
    /\ UNCHANGED <<files, max_files, batch, processed_count, stats, dispatched, loaderVars, poolVars, transformVars, detectVars, conversion, fieldstore, run, located>>

NextBatchRun ==
    \/ NextBatch
    \/ CollectStats
    \/ ReturnStats
    \/ BeginLoadFiling
    \/ LoadOrganizationStep
    \/ LoadFilingRecordStep
    \/ LoadFilingValuesStep
    \/ LoadRepeatingGroupsStep
    \/ StoreXmlMetadataStep
    \/ CommitStep

SpecBatch == InitBatch /\ [][NextBatchRun]_vars

-----------------------------------------------------------------------------
(* SpecPool: worker threads each run one `with transaction(...)` block.    *)
(* get_connection and return_connection both go through                   *)
(* ConnectionPool.get_instance, which reads and writes the class attribute *)
(* _instance without a lock: its statements interleave between threads.    *)
(* A pool hands out a connection under a key of its own (psycopg2          *)
(* AbstractConnectionPool._used) and takes back only connections it holds  *)
(* a key for.                                                              *)

NoPool == 0        \* ConnectionPool._instance is None

Workers == 1..MaxWorkers

\* pool.used: the connections checked out, each with the pool that keyed it
Used(p) == {c \in pool.used : c.pool = p}

InitPool ==
    /\ InitLoader
    /\ InitDriverOff
    /\ InitTransformOff
    /\ InitDetectOff
    /\ InitConvertOff
    /\ InitFieldsOff
    /\ InitRunOff
    /\ InitLocateOff
    /\ pool = [instance |-> NoPool, created |-> 0, keys |-> 0, used |-> {}]
    /\ workers = [w \in Workers |-> [wpc |-> "check", made |-> NoPool, inst |-> NoPool,
                                   conn |-> << >>, outcome |-> "running"]]

\* get_instance, entered from get_connection: if cls._instance is None
GetInstanceCheck(w) ==
    /\ workers[w].wpc = "check"
    /\ workers' = [workers EXCEPT ![w].wpc = IF pool.instance = NoPool THEN "create" ELSE "return"]
    /\ UNCHANGED <<pool, loaderVars, driverVars, transformVars, detectVars, conversion, fieldstore, run, located>>

\* cls(**kwargs): a new ThreadedConnectionPool is built
GetInstanceCreate(w) ==
    /\ workers[w].wpc = "create"
    /\ pool' = [pool EXCEPT !.created = @ + 1]
    /\ workers' = [workers EXCEPT ![w].wpc = "assign", ![w].made = pool.created + 1]
    /\ UNCHANGED <<loaderVars, driverVars, transformVars, detectVars, conversion, fieldstore, run, located>>

\* cls._instance = <the pool just built>
GetInstanceAssign(w) ==
    /\ workers[w].wpc = "assign"
    /\ pool' = [pool EXCEPT !.instance = workers[w].made]
    /\ workers' = [workers EXCEPT ![w].wpc = "return"]
    /\ UNCHANGED <<loaderVars, driverVars, transformVars, detectVars, conversion, fieldstore, run, located>>

\* return cls._instance
GetInstanceReturn(w) ==
    /\ workers[w].wpc = "return"
    /\ workers' = [workers EXCEPT ![w].wpc = "getconn", ![w].inst = pool.instance]
    /\ UNCHANGED <<pool, loaderVars, driverVars, transformVars, detectVars, conversion, fieldstore, run, located>>

\* pool.get_connection(): getconn of the pool get_instance returned; the
\* pool is exhausted when max_conn connections are out
GetConnection(w) ==
    /\ workers[w].wpc = "getconn"
    /\ IF Cardinality(Used(workers[w].inst)) >= MaxConn
       THEN /\ workers' = [workers EXCEPT ![w].wpc = "done", ![w].outcome = "no connection"]
            /\ UNCHANGED pool
       ELSE LET c == [pool |-> workers[w].inst, key |-> pool.keys + 1]
            IN /\ pool' = [pool EXCEPT !.keys = @ + 1, !.used = @ \cup {c}]
               /\ workers' = [workers EXCEPT ![w].wpc = "body", ![w].conn = << c >>]
    /\ UNCHANGED <<loaderVars, driverVars, transformVars, detectVars, conversion, fieldstore, run, located>>

\* yield conn: the body of the with block completes or raises
TransactionBody(w) ==
    /\ workers[w].wpc = "body"
    /\ \E raises \in BOOLEAN :
        workers' = [workers EXCEPT ![w].wpc = IF raises THEN "rollback" ELSE "commit"]
    /\ UNCHANGED <<pool, loaderVars, driverVars, transformVars, detectVars, conversion, fieldstore, run, located>>

\* conn.commit() succeeds or raises
TransactionCommit(w) ==
    /\ workers[w].wpc = "commit"
    /\ \E raises \in BOOLEAN :
        workers' = [workers EXCEPT ![w].wpc = IF raises THEN "rollback" ELSE "finally",
                                   ![w].outcome = IF raises THEN @ ELSE "committed"]
    /\ UNCHANGED <<pool, loaderVars, driverVars, transformVars, detectVars, conversion, fieldstore, run, located>>

\* except Exception: conn.rollback(); raise
TransactionRollback(w) ==
    /\ workers[w].wpc = "rollback"
    /\ workers' = [workers EXCEPT ![w].wpc = "finally", ![w].outcome = "rolled back"]
    /\ UNCHANGED <<pool, loaderVars, driverVars, transformVars, detectVars, conversion, fieldstore, run, located>>

\* finally: return_connection(conn): get_instance() finds _instance set and
\* returns it; putconn hands the connection back when that pool has its
\* key, and raises PoolError otherwise
ReturnConnection(w) ==
    /\ workers[w].wpc = "finally"
    /\ LET c == workers[w].conn[1]
       IN IF c.pool = pool.instance
          THEN /\ pool' = [pool EXCEPT !.used = @ \ {c}]
               /\ workers' = [workers EXCEPT ![w].wpc = "done"]
          ELSE /\ workers' = [workers EXCEPT ![w].wpc = "done", ![w].outcome = "PoolError"]
               /\ UNCHANGED pool
    /\ UNCHANGED <<loaderVars, driverVars, transformVars, detectVars, conversion, fieldstore, run, located>>

NextPool ==
    \E w \in Workers :
        \/ GetInstanceCheck(w)
        \/ GetInstanceCreate(w)
        \/ GetInstanceAssign(w)
        \/ GetInstanceReturn(w)
        \/ GetConnection(w)
        \/ TransactionBody(w)
        \/ TransactionCommit(w)
        \/ TransactionRollback(w)
        \/ ReturnConnection(w)

SpecPool == InitPool /\ [][NextPool]_vars

-----------------------------------------------------------------------------
(* Text.  Element names, paths and element texts are strings, taken apart  *)
(* character by character as the code's str methods and regular            *)
(* expressions do.                                                         *)

\* s.startswith(p)
StartsWith(s, p) == Len(p) <= Len(s) /\ SubSeq(s, 1, Len(p)) = p

\* p in s / contains(local-name(), p)
Contains(s, p) == \E i \in 1..(Len(s) - Len(p) + 1) : SubSeq(s, i, i + Len(p) - 1) = p

Digits == {"0", "1", "2", "3", "4", "5", "6", "7", "8", "9"}

\* re.sub(pattern, '', s) for a pattern that matches every character not in keep
RECURSIVE Keep(_, _)
Keep(s, keep) ==
    IF s = "" THEN ""
    ELSE (IF SubSeq(s, 1, 1) \in keep THEN SubSeq(s, 1, 1) ELSE "") \o Keep(SubSeq(s, 2, Len(s)), keep)

\* s.lstrip(ch), s.rstrip(ch) for one character
RECURSIVE LStrip(_, _)
LStrip(s, ch) == IF s # "" /\ SubSeq(s, 1, 1) = ch THEN LStrip(SubSeq(s, 2, Len(s)), ch) ELSE s

RECURSIVE RStrip(_, _)
RStrip(s, ch) ==
    IF s # "" /\ SubSeq(s, Len(s), Len(s)) = ch THEN RStrip(SubSeq(s, 1, Len(s) - 1), ch) ELSE s

\* s.strip(): blanks are the only white space of the model's texts
Strip(s) == RStrip(LStrip(s, " "), " ")

\* the position of the first ch in s, 0 when there is none
RECURSIVE Find(_, _, _)
Find(s, ch, i) ==
    IF i > Len(s) THEN 0 ELSE IF SubSeq(s, i, i) = ch THEN i ELSE Find(s, ch, i + 1)

AllDigits(s) == \A i \in 1..Len(s) : SubSeq(s, i, i) \in Digits

\* float(s) accepts s: an optional sign, digits with at most one point, at
\* least one digit (s is made of digits, points and minus signs only)
ParsesAsFloat(s) ==
    LET u == IF s # "" /\ SubSeq(s, 1, 1) = "-" THEN SubSeq(s, 2, Len(s)) ELSE s
        dot == Find(u, ".", 1)
        int == IF dot = 0 THEN u ELSE SubSeq(u, 1, dot - 1)
        frac == IF dot = 0 THEN "" ELSE SubSeq(u, dot + 1, Len(u))
    IN AllDigits(int) /\ AllDigits(frac) /\ Len(int) + Len(frac) > 0

\* float(s), written as Python prints it: no leading zeros, no trailing
\* zeros after the point, at least one digit on each side
Float(s) ==
    LET neg == SubSeq(s, 1, 1) = "-"
        u == IF neg THEN SubSeq(s, 2, Len(s)) ELSE s
        dot == Find(u, ".", 1)
        int == LStrip(IF dot = 0 THEN u ELSE SubSeq(u, 1, dot - 1), "0")
        frac == RStrip(IF dot = 0 THEN "" ELSE SubSeq(u, dot + 1, Len(u)), "0")
        i == IF int = "" THEN "0" ELSE int
        f == IF frac = "" THEN "0" ELSE frac
    IN (IF neg THEN "-" ELSE "") \o i \o "." \o f

LowerOf ==
    [A |-> "a", B |-> "b", C |-> "c", D |-> "d", E |-> "e", F |-> "f", G |-> "g", H |-> "h",
     I |-> "i", J |-> "j", K |-> "k", L |-> "l", M |-> "m", N |-> "n", O |-> "o", P |-> "p",
     Q |-> "q", R |-> "r", S |-> "s", T |-> "t", U |-> "u", V |-> "v", W |-> "w", X |-> "x",
     Y |-> "y", Z |-> "z"]

\* s.lower()
RECURSIVE Lower(_)
Lower(s) ==
    IF s = "" THEN ""
    ELSE LET c == SubSeq(s, 1, 1)
         IN (IF c \in DOMAIN LowerOf THEN LowerOf[c] ELSE c) \o Lower(SubSeq(s, 2, Len(s)))

\* a Python bool, as a value that can stand in a slot next to None
PyBool(b) == IF b THEN "True" ELSE "False"

\* (mutant) a converter that keeps the raw text next to the parsed number
ConvertValueKeepText(value, data_type) ==
    CASE data_type = "numeric" /\ ParsesAsFloat(Keep(value, Digits \cup {".", "-"})) ->
            Slots(value, Float(Keep(value, Digits \cup {".", "-"})), NULL, NULL)
      [] data_type = "date" -> Slots(NULL, NULL, NULL, value)
      [] data_type = "checkbox" \/ data_type = "boolean" ->
            Slots(NULL, NULL, PyBool(Lower(value) \in {"true", "yes", "1", "t", "y", "x"}), NULL)
      [] OTHER -> Slots(value, NULL, NULL, NULL)

\* IRS990Transformer._convert_value
ConvertValue(value, data_type) ==
    CASE Falsy(data_type) \/ data_type = "text" -> Slots(value, NULL, NULL, NULL)
      [] data_type = "numeric" ->
            LET clean_value == Keep(value, Digits \cup {".", "-"})
            IN IF ParsesAsFloat(clean_value)
               THEN Slots(NULL, Float(clean_value), NULL, NULL)
               ELSE Slots(value, NULL, NULL, NULL)
      [] data_type = "checkbox" \/ data_type = "boolean" ->
            Slots(NULL, NULL, PyBool(Lower(value) \in {"true", "yes", "1", "t", "y", "x"}), NULL)
      [] data_type = "date" -> Slots(NULL, NULL, NULL, value)
      [] OTHER -> Slots(value, NULL, NULL, NULL)

\* repeating_groups.utils.convert_value, for a value that is not None
UtilsConvertValue(value, data_type) ==
    CASE data_type = "number" ->
            LET cleaned_value == Keep(value, Digits \cup {".", "-"})
            IN IF ParsesAsFloat(cleaned_value)
               THEN Slots(Float(cleaned_value), Float(cleaned_value), NULL, NULL)
               ELSE Slots(value, NULL, NULL, NULL)
      [] data_type = "boolean" ->
            IF Lower(value) \in {"true", "yes", "1", "t", "y"} THEN Slots("true", NULL, PyBool(TRUE), NULL)
            ELSE IF Lower(value) \in {"false", "no", "0", "f", "n"} THEN Slots("false", NULL, PyBool(FALSE), NULL)
            ELSE Slots(value, NULL, NULL, NULL)
      [] data_type = "date" -> Slots(value, NULL, NULL, value)
      [] OTHER -> Slots(value, NULL, NULL, NULL)

-----------------------------------------------------------------------------
(* Parsed documents.  The tree of a document is the sequence of its        *)
(* elements in document order; an element has a local name, a namespace    *)
(* (NULL for none), its text (NULL for none, as lxml gives for an empty    *)
(* element) and the position of its parent (0 for the root).               *)

El(name, parent, text) == [name |-> name, parent |-> parent, text |-> text, ns |-> NULL]

\* the elements of a set of positions, in document order
RECURSIVE InOrder(_)
InOrder(S) ==
    IF S = {} THEN << >>
    ELSE LET m == CHOOSE x \in S : \A y \in S : x <= y
         IN << m >> \o InOrder(S \ {m})

\* list(element): the children, in document order
ChildrenOf(nodes, n) == InOrder({m \in 1..Len(nodes) : nodes[m].parent = n})

RECURSIVE AncestorsOf(_, _)
AncestorsOf(nodes, n) ==
    IF nodes[n].parent = 0 THEN {}
    ELSE {nodes[n].parent} \cup AncestorsOf(nodes, nodes[n].parent)

\* element.xpath(".//*"): the descendants, in document order
DescendantsOf(nodes, n) == InOrder({m \in 1..Len(nodes) : n \in AncestorsOf(nodes, m)})

\* root.xpath("//*"): every element of the document, whatever the context
AllElements(nodes) == InOrder(1..Len(nodes))

\* hasattr(e, 'text') and e.text
HasText(nodes, n) == ~Falsy(nodes[n].text)

\* getroottree().getpath(element): /name for an only child of that name,
\* /name[k] for the k-th of several
RECURSIVE GetPath(_, _)
GetPath(nodes, n) ==
    LET same == {m \in 1..Len(nodes) :
                    nodes[m].parent = nodes[n].parent /\ nodes[m].name = nodes[n].name}
        k == Cardinality({m \in same : m <= n})
        step == "/" \o nodes[n].name \o
                (IF Cardinality(same) > 1 THEN "[" \o ToString(k) \o "]" ELSE "")
    IN IF nodes[n].parent = 0 THEN step ELSE GetPath(nodes, nodes[n].parent) \o step

\* the elements of a list that satisfy a test on the local name
SelectEl(nodes, list, Test(_)) == SelectSeq(list, LAMBDA m : Test(nodes[m].name))

\* the first element of elements, when it has a text: its text, stripped
FirstText(nodes, elements) ==
    IF elements # << >> /\ HasText(nodes, elements[1])
    THEN << Strip(nodes[elements[1]].text) >>
    ELSE << >>

-----------------------------------------------------------------------------
(* The concordance and the transformer instance.  A Python dict that is    *)
(* iterated is the sequence of its items in insertion order.               *)

DictHas(d, k) == \E i \in 1..Len(d) : d[i].key = k
DictGet(d, k) == d[CHOOSE i \in 1..Len(d) : d[i].key = k].value
\* d[k] = v: a new key goes to the end, a known key keeps its place
DictPut(d, k, v) ==
    IF DictHas(d, k)
    THEN [i \in 1..Len(d) |-> IF d[i].key = k THEN [key |-> k, value |-> v] ELSE d[i]]
    ELSE Append(d, [key |-> k, value |-> v])

\* the column the loader reads: the lower-case name if the file has it,
\* else the upper-case one
ColumnName(columns, lower, upper) == IF lower \in columns THEN lower ELSE upper

\* row[col] if col in row and pd.notna(row[col]) else default
Cell(row, col, default) ==
    IF col \in DOMAIN row /\ row[col] # NULL THEN row[col] ELSE default

\* self.field_ids, self.data_types, self.tables, self.field_loaded of __init__
NewTransformer == [field_ids |-> << >>, data_types |-> << >>, tables |-> << >>, field_loaded |-> FALSE]

\* the body of the for loop of _load_concordance for one row
ConcordanceRow(t, field_id, row, columns) ==
    LET var_name == Cell(row, ColumnName(columns, "variable_name", "VAR_NAME"), NULL)
        xpath == Cell(row, ColumnName(columns, "xpath", "XPATH"), NULL)
        data_type == Cell(row, ColumnName(columns, "data_type_simple", "DATA_TYPE_SIMPLE"), "text")
        rdb_table == Cell(row, ColumnName(columns, "rdb_table", "DATABASE_TABLE"), "filing_values")
        relationship == Cell(row, ColumnName(columns, "rdb_relationship", "RELATIONSHIP"), "ONE")
        rel == IF relationship = "MANY" THEN "MANY" ELSE "ONE"
        field_info == [var_name |-> var_name, field_id |-> field_id, xpath |-> xpath, data_type |-> data_type]
        old == IF DictHas(t.tables, rdb_table) THEN DictGet(t.tables, rdb_table)
               ELSE [ONE |-> << >>, MANY |-> << >>]
    IN IF Falsy(var_name) \/ Falsy(xpath)
       THEN [t |-> t, field_id |-> field_id]
       ELSE [t |-> [t EXCEPT !.field_ids = DictPut(@, var_name, field_id),
                             !.data_types = DictPut(@, var_name, data_type),
                             !.tables = IF ~Falsy(rdb_table) /\ rdb_table # "filing_values"
                                        THEN DictPut(@, rdb_table, [old EXCEPT ![rel] = Append(@, field_info)])
                                        ELSE @],
             field_id |-> field_id + 1]

RECURSIVE ConcordanceRows(_, _, _, _)
ConcordanceRows(t, field_id, rows, columns) ==
    IF rows = << >> THEN t
    ELSE LET r == ConcordanceRow(t, field_id, Head(rows), columns)
         IN ConcordanceRows(r.t, r.field_id, Tail(rows), columns)

\* IRS990Transformer._load_concordance: ConcordanceError when the file does
\* not exist, else the registry read from its rows, field_loaded set
LoadConcordance(csv) ==
    IF ~csv.exists
    THEN [raised |-> TRUE, t |-> NewTransformer]
    ELSE [raised |-> FALSE,
          t |-> [ConcordanceRows(NewTransformer, 1, csv.rows, csv.columns) EXCEPT !.field_loaded = TRUE]]

-----------------------------------------------------------------------------
(* Location expressions.  A concordance xpath is an absolute path of       *)
(* steps, each a name, a prefix:name or *[local-name()='name'].            *)

\* "/a/b" -> <<"a", "b">>
RECURSIVE SplitPath(_)
SplitPath(xpath) ==
    IF xpath = "" THEN << >>
    ELSE LET rest == SubSeq(xpath, 2, Len(xpath))
             slash == Find(rest, "/", 1)
         IN IF slash = 0 THEN << rest >>
            ELSE << SubSeq(rest, 1, slash - 1) >> \o SplitPath(SubSeq(rest, slash, Len(rest)))

LocalNameOpen == "*[local-name()='"

\* a step as (prefix, name, local): local when it tests the local name only
ParseStep(step) ==
    LET colon == Find(step, ":", 1) IN
    IF StartsWith(step, LocalNameOpen)
    THEN [prefix |-> NULL, local |-> TRUE,
          name |-> SubSeq(step, Len(LocalNameOpen) + 1, Len(step) - 2)]
    ELSE IF colon # 0
    THEN [prefix |-> SubSeq(step, 1, colon - 1), local |-> FALSE,
          name |-> SubSeq(step, colon + 1, Len(step))]
    ELSE [prefix |-> NULL, local |-> FALSE, name |-> step]

ParseXPath(xpath) == LET steps == SplitPath(xpath) IN [i \in 1..Len(steps) |-> ParseStep(steps[i])]

\* the namespaces dict of _process_xml_file: the prefixed bindings of the
\* root, the default namespace as 'default' and again as 'irs'
Namespaces(nsmap) ==
    LET prefixed == SelectSeq(nsmap, LAMBDA b : b.key # NULL)
        dflt == SelectSeq(nsmap, LAMBDA b : b.key = NULL)
        with_default == IF dflt = << >> THEN prefixed ELSE DictPut(prefixed, "default", dflt[1].value)
    IN IF DictHas(with_default, "default")
       THEN DictPut(with_default, "irs", DictGet(with_default, "default"))
       ELSE with_default

ToLocal(step) == [prefix |-> NULL, local |-> TRUE, name |-> step.name]

\* _create_xpath_variations: the original; the steps of a bound prefix by
\* local name; for each bound prefix the path with every other bound prefix
\* replaced by it, when that changes the path; every prefixed step by local name
CreateXPathVariations(steps, namespaces) ==
    LET bound == {namespaces[i].key : i \in 1..Len(namespaces)}
        local_name_xpath ==
            [i \in 1..Len(steps) |->
                IF steps[i].prefix \in bound THEN ToLocal(steps[i]) ELSE steps[i]]
        Swapped(p) ==
            [i \in 1..Len(steps) |->
                IF steps[i].prefix \in bound \ {p} THEN [steps[i] EXCEPT !.prefix = p] ELSE steps[i]]
        swaps == SelectSeq([i \in 1..Len(namespaces) |-> Swapped(namespaces[i].key)],
                           LAMBDA v : v # steps)
        all_local ==
            [i \in 1..Len(steps) |->
                IF steps[i].prefix # NULL THEN ToLocal(steps[i]) ELSE steps[i]]
    IN << steps, local_name_xpath >> \o swaps \o << all_local >>

\* the chain of elements from the root down to n
RECURSIVE Chain(_, _)
Chain(nodes, n) ==
    IF nodes[n].parent = 0 THEN << n >> ELSE Append(Chain(nodes, nodes[n].parent), n)

StepMatches(step, el, namespaces) ==
    /\ el.name = step.name
    /\ \/ step.local
       \/ step.prefix = NULL /\ el.ns = NULL
       \/ step.prefix # NULL /\ DictHas(namespaces, step.prefix)
                             /\ el.ns = DictGet(namespaces, step.prefix)

\* root.xpath(path, namespaces=namespaces): the matching elements in
\* document order; no element when a prefix is not bound (the call raises,
\* the caller goes on with the next variation)
EvalXPath(nodes, steps, namespaces) ==
    IF \E i \in 1..Len(steps) : steps[i].prefix # NULL /\ ~DictHas(namespaces, steps[i].prefix)
    THEN << >>
    ELSE InOrder({n \in 1..Len(nodes) :
            LET chain == Chain(nodes, n)
            IN /\ Len(chain) = Len(steps)
               /\ \A i \in 1..Len(steps) : StepMatches(steps[i], nodes[chain[i]], namespaces)})

\* the xpath _extract_value_from_xml finds for a variable: that of the
\* first field_info of that name in self.tables, ONE before MANY
XPathOf(t, var_name) ==
    LET infos == Flatten([i \in 1..Len(t.tables) |-> t.tables[i].value.ONE \o t.tables[i].value.MANY])
        found == SelectSeq(infos, LAMBDA f : f.var_name = var_name /\ ~Falsy(f.xpath))
    IN IF found = << >> THEN << >> ELSE << found[1].xpath >>

\* the first variation whose first element has a text gives the value
RECURSIVE TryVariations(_, _, _)
TryVariations(nodes, variations, namespaces) ==
    IF variations = << >> THEN << >>
    ELSE LET value == FirstText(nodes, EvalXPath(nodes, Head(variations), namespaces))
         IN IF value # << >> THEN value
            ELSE TryVariations(nodes, Tail(variations), namespaces)

\* IRS990Transformer._extract_value_from_xml: <<>> for None
ExtractValueFromXml(t, nodes, var_name, namespaces) ==
    LET xpath == XPathOf(t, var_name) IN
    IF xpath = << >> THEN << >>
    ELSE TryVariations(nodes, CreateXPathVariations(ParseXPath(xpath[1]), namespaces), namespaces)

\* var_name names a MANY field of some table
IsManyField(t, var_name) ==
    \E i \in 1..Len(t.tables) :
        \E k \in 1..Len(t.tables[i].value.MANY) : t.tables[i].value.MANY[k].var_name = var_name

\* IRS990Transformer._extract_filing_values on a parsed document
ExtractScalarValues(t, nodes, filing_id, namespaces) ==
    IF ~t.field_loaded THEN << >>
    ELSE Flatten([i \in 1..Len(t.field_ids) |->
            LET var_name == t.field_ids[i].key
                value == ExtractValueFromXml(t, nodes, var_name, namespaces)
                data_type == IF DictHas(t.data_types, var_name)
                             THEN DictGet(t.data_types, var_name) ELSE "text"
            IN IF IsManyField(t, var_name) \/ value = << >> THEN << >>
               ELSE << [filing_id |-> filing_id] @@ Val(t.field_ids[i].value, ConvertValue(value[1], data_type)) >>])

-----------------------------------------------------------------------------
(* Repeating groups in the transformer *)

\* some local name occurs more than once among the children
HasRepeatingChildren(nodes, n) ==
    \E a, b \in 1..Len(nodes) :
        a # b /\ nodes[a].parent = n /\ nodes[b].parent = n /\ nodes[a].name = nodes[b].name

\* the elements a "//prefix:*[contains(local-name(), part)]" pattern gives;
\* none when the prefix is not bound
ByNamePart(nodes, part, prefix, namespaces) ==
    IF prefix # NULL /\ ~DictHas(namespaces, prefix) THEN << >>
    ELSE SelectSeq(AllElements(nodes),
            LAMBDA m : /\ Contains(nodes[m].name, part)
                       /\ prefix # NULL => nodes[m].ns = DictGet(namespaces, prefix))

\* the items of a list without the later repeats of an item
RECURSIVE Unique(_)
Unique(list) ==
    IF list = << >> THEN << >>
    ELSE LET front == Unique(SubSeq(list, 1, Len(list) - 1))
             last == list[Len(list)]
         IN IF \E i \in 1..Len(front) : front[i] = last THEN front ELSE Append(front, last)

\* IRS990Transformer._detect_repeating_groups: the containers found, in the
\* order their paths enter the dict.  The patterns start with //, so they
\* search the whole document whatever element the search is started from.
DetectRepeatingGroups(nodes, namespaces) ==
    LET elements == ByNamePart(nodes, "Grp", NULL, namespaces)
                    \o ByNamePart(nodes, "Group", NULL, namespaces)
                    \o ByNamePart(nodes, "Table", NULL, namespaces)
                    \o ByNamePart(nodes, "Grp", "irs", namespaces)
                    \o ByNamePart(nodes, "Grp", "default", namespaces)
    IN Unique(SelectSeq(elements, LAMBDA m : HasRepeatingChildren(nodes, m)))

GroupPathMappings ==
    << <<"OfficerDirectorTrustee", "compensation_officers">>,
       <<"CompensationHighest", "compensation_highest">>,
       <<"GrantsToDomesticOrg", "grants_domestic">>,
       <<"GrantsToForeignOrg", "foreign_org_grants">>,
       <<"ForeignActivities", "foreign_activities">>,
       <<"ExpenseOther", "expenses_other">>,
       <<"ProgSrvcAccomplishment", "program_service_accomplishment">>,
       <<"RelatedOrgInfo", "related_org_info">>,
       <<"UnrelatedBusiness", "unrelated_business">>,
       <<"SupplementalInfo", "supplemental_info">>,
       <<"DisregardedEntityGrp", "disregarded_entities">>,
       <<"LandBuildingEquipmentGrp", "land_buildings_equipment">>,
       <<"InvestmentIncomeGrp", "investment_income">>,
       <<"OtherRevenueGrp", "revenue_misc">>,
       <<"FunctionalExpenseGrp", "functional_expenses">> >>

Alphanumeric ==
    Digits \cup DOMAIN LowerOf \cup {LowerOf[c] : c \in DOMAIN LowerOf}

\* re.sub(r'[^a-zA-Z0-9]', '_', s), then runs of _ made one
RECURSIVE Underscored(_)
Underscored(s) ==
    IF s = "" THEN ""
    ELSE LET rest == Underscored(SubSeq(s, 2, Len(s)))
         IN IF SubSeq(s, 1, 1) \in Alphanumeric THEN SubSeq(s, 1, 1) \o rest
            ELSE IF StartsWith(rest, "_") THEN rest ELSE "_" \o rest

LongestTableSuffix == 50

\* IRS990Transformer._guess_table_name
GuessTableName(group_path) ==
    LET hits == SelectSeq(GroupPathMappings, LAMBDA kv : Contains(group_path, kv[1]))
        clean_name == RStrip(LStrip(Lower(Underscored(group_path)), "_"), "_")
        tail == IF Len(clean_name) > LongestTableSuffix
                THEN SubSeq(clean_name, Len(clean_name) - LongestTableSuffix + 1, Len(clean_name))
                ELSE clean_name
    IN IF hits # << >> THEN hits[1][2]
       ELSE IF \E k \in {"PartVII", "Compensation", "Officer"} : Contains(group_path, k)
            THEN "compensation_officers"
       ELSE IF Contains(group_path, "Expense") THEN "expenses_other"
       ELSE IF Contains(group_path, "Grant") \/ Contains(group_path, "Foreign") THEN "foreign_org_grants"
       ELSE IF Contains(group_path, "Supplemental") \/ Contains(group_path, "Information")
            THEN "supplemental_info"
       ELSE "repeating_" \o tail

FieldSpec(name, path, type) == [name |-> name, path |-> path, type |-> type]

\* common_fields and default_fields of _get_fields_for_table
GenericFieldSpecs(table_name) ==
    CASE table_name = "compensation_officers" ->
            << FieldSpec("PersonNm", "./PersonNm", "text"),
               FieldSpec("TitleTxt", "./TitleTxt", "text"),
               FieldSpec("OfficerInd", "./OfficerInd", "boolean"),
               FieldSpec("ReportableCompFromOrgAmt", "./ReportableCompFromOrgAmt", "numeric"),
               FieldSpec("ReportableCompFromRltdOrgAmt", "./ReportableCompFromRltdOrgAmt", "numeric") >>
      [] table_name = "expenses_other" ->
            << FieldSpec("Desc", "./Desc", "text"),
               FieldSpec("TotalAmt", "./TotalAmt", "numeric"),
               FieldSpec("ProgramServicesAmt", "./ProgramServicesAmt", "numeric"),
               FieldSpec("MgmtAndGeneralAmt", "./MgmtAndGeneralAmt", "numeric"),
               FieldSpec("FundraisingAmt", "./FundraisingAmt", "numeric") >>
      [] table_name = "foreign_org_grants" ->
            << FieldSpec("RegionTxt", "./RegionTxt", "text"),
               FieldSpec("PurposeOfGrantTxt", "./PurposeOfGrantTxt", "text"),
               FieldSpec("CashGrantAmt", "./CashGrantAmt", "numeric"),
               FieldSpec("NonCashAssistanceAmt", "./NonCashAssistanceAmt", "numeric"),
               FieldSpec("MannerOfCashDisbursementTxt", "./MannerOfCashDisbursementTxt", "text") >>
      [] table_name = "supplemental_info" ->
            << FieldSpec("FormAndLineReferenceDesc", "./FormAndLineReferenceDesc", "text"),
               FieldSpec("ExplanationTxt", "./ExplanationTxt", "text") >>
      [] OTHER ->
            << FieldSpec("Value", ".", "text"),
               FieldSpec("Amount", "./Amt", "numeric"),
               FieldSpec("Description", "./Desc", "text"),
               FieldSpec("Name", "./Nm", "text"),
               FieldSpec("Text", "./Txt", "text") >>

\* the for loop of _get_fields_for_table over the generic field specs: a
\* spec whose variable is already in self.field_ids is skipped, the others
\* are entered into self.field_ids and self.data_types
RECURSIVE AddGenericFields(_, _, _, _, _)
AddGenericFields(t, fields, next_field_id, field_specs, table_name) ==
    IF field_specs = << >> THEN [fields |-> fields, t |-> t]
    ELSE LET field_spec == Head(field_specs)
             var_name == table_name \o "_" \o field_spec.name
         IN IF DictHas(t.field_ids, var_name)
            THEN AddGenericFields(t, fields, next_field_id, Tail(field_specs), table_name)
            ELSE AddGenericFields(
                    [t EXCEPT !.field_ids = DictPut(@, var_name, next_field_id),
                              !.data_types = DictPut(@, var_name, field_spec.type)],
                    Append(fields, [field_id |-> next_field_id, var_name |-> var_name,
                                    xpath |-> field_spec.path, data_type |-> field_spec.type]),
                    next_field_id + 1, Tail(field_specs), table_name)

\* IRS990Transformer._get_fields_for_table: the fields, and the instance
\* as the call leaves it
GetFieldsForTable(t, table_name) ==
    IF DictHas(t.tables, table_name) /\ DictGet(t.tables, table_name).MANY # << >>
    THEN [fields |-> DictGet(t.tables, table_name).MANY, t |-> t]
    ELSE AddGenericFields(t, << >>, Len(t.field_ids) + 1, GenericFieldSpecs(table_name), table_name)

\* the first of the given elements, tried in turn, that has a text
RECURSIVE FirstWithText(_, _)
FirstWithText(nodes, elements) ==
    IF elements = << >> THEN << >>
    ELSE IF HasText(nodes, Head(elements)) THEN << Strip(nodes[Head(elements)].text) >>
    ELSE FirstWithText(nodes, Tail(elements))

\* the searches of _extract_value_from_element after the direct children:
\* by each bound prefix, by local name, by part of the local name (the
\* ends-with search raises in XPath 1.0 and gives nothing)
DeepSearches(nodes, n, field_name, namespaces) ==
    LET below == DescendantsOf(nodes, n)
    IN [i \in 1..Len(namespaces) |->
            SelectSeq(below, LAMBDA m : nodes[m].name = field_name /\ nodes[m].ns = namespaces[i].value)]
       \o << SelectSeq(below, LAMBDA m : nodes[m].name = field_name),
             SelectSeq(below, LAMBDA m : Contains(nodes[m].name, field_name)) >>

RECURSIVE FirstSearchWithText(_, _)
FirstSearchWithText(nodes, searches) ==
    IF searches = << >> THEN << >>
    ELSE LET value == FirstText(nodes, Head(searches))
         IN IF value # << >> THEN value ELSE FirstSearchWithText(nodes, Tail(searches))

\* IRS990Transformer._extract_value_from_element: <<>> for None
ExtractValueFromElement(nodes, n, field_name, namespaces) ==
    LET direct == FirstWithText(nodes, SelectSeq(ChildrenOf(nodes, n), LAMBDA m : nodes[m].name = field_name))
    IN IF direct # << >> THEN direct
       ELSE FirstSearchWithText(nodes, DeepSearches(nodes, n, field_name, namespaces))

\* the values of one row: one per field of the table that has a value there
RowValues(nodes, row, table_fields, group_id, namespaces) ==
    Flatten([k \in 1..Len(table_fields) |->
        LET value == ExtractValueFromElement(nodes, row, table_fields[k].var_name, namespaces)
        IN IF value = << >> THEN << >>
           ELSE << [group_id |-> group_id]
                   @@ Val(table_fields[k].field_id,
                          ConvertValue(value[1], GetDefault(table_fields[k], "data_type", "text"))) >>])

\* the for loop of _process_repeating_groups over the detected groups
RECURSIVE ProcessGroups(_, _, _, _, _, _)
ProcessGroups(t, nodes, detected, group_id, filing_id, namespaces) ==
    IF detected = << >> THEN [repeating_groups |-> << >>, group_values |-> << >>, t |-> t]
    ELSE LET group_xpath == GetPath(nodes, Head(detected))
             table_name == GuessTableName(group_xpath)
             got == GetFieldsForTable(t, table_name)
             rows == ChildrenOf(nodes, Head(detected))
             values == Flatten([r \in 1..Len(rows) |->
                            RowValues(nodes, rows[r], got.fields, group_id, namespaces)])
             rest == ProcessGroups(got.t, nodes, Tail(detected), group_id + 1, filing_id, namespaces)
         IN [repeating_groups |->
                << [group_id |-> group_id, filing_id |-> filing_id,
                    name |-> table_name, xpath |-> group_xpath] >> \o rest.repeating_groups,
             group_values |-> values \o rest.group_values,
             t |-> rest.t]

\* (mutant) a group counter that starts at zero
ProcessDetectedGroupsFromZero(t, nodes, filing_id, namespaces) ==
    ProcessGroups(t, nodes, DetectRepeatingGroups(nodes, namespaces), 0, filing_id, namespaces)

\* IRS990Transformer._process_repeating_groups on a parsed document, with
\* the instance as the call leaves it
ProcessDetectedGroups(t, nodes, filing_id, namespaces) ==
    ProcessGroups(t, nodes, DetectRepeatingGroups(nodes, namespaces), 1, filing_id, namespaces)

-----------------------------------------------------------------------------
(* _process_xml_file on a parsed document *)

\* the elements a pattern //p:a/p:b (prefix p) or
\* //*[local-name()='a']/*[local-name()='b'] (prefix NULL) gives
ByTail(nodes, tail, prefix, namespaces) ==
    IF prefix # NULL /\ ~DictHas(namespaces, prefix) THEN << >>
    ELSE SelectSeq(AllElements(nodes),
            LAMBDA m :
                LET chain == Chain(nodes, m)
                    off == Len(chain) - Len(tail)
                IN /\ off >= 0
                   /\ \A i \in 1..Len(tail) :
                        /\ nodes[chain[off + i]].name = tail[i]
                        /\ prefix # NULL => nodes[chain[off + i]].ns = DictGet(namespaces, prefix))

Pattern(tail, prefix) == [tail |-> tail, prefix |-> prefix]

\* get_text(patterns): the stripped text of the first element of the first
\* pattern whose first element has a text, else None
RECURSIVE GetText(_, _, _)
GetText(nodes, patterns, namespaces) ==
    IF patterns = << >> THEN NULL
    ELSE LET value == FirstText(nodes, ByTail(nodes, Head(patterns).tail, Head(patterns).prefix, namespaces))
         IN IF value # << >> THEN value[1] ELSE GetText(nodes, Tail(patterns), namespaces)

\* the three patterns of a ReturnHeader field
HeaderPatterns(name) ==
    << Pattern(<< name >>, NULL),
       Pattern(<< "ReturnHeader", name >>, "irs"),
       Pattern(<< "ReturnHeader", name >>, "default") >>

AddressPatterns(name) ==
    << Pattern(<< "USAddress", name >>, NULL), Pattern(<< "ForeignAddress", name >>, NULL) >>

\* what the lookups of _extract_metadata and _extract_organization_info
\* find in a parsed document
Summary(x) ==
    LET namespaces == Namespaces(x.nsmap)
        Text(patterns) == GetText(x.nodes, patterns, namespaces)
    IN [file |-> x.file, wellformed |-> x.wellformed,
        EIN |-> Text(<< Pattern(<< "EIN" >>, NULL),
                        Pattern(<< "ReturnHeader", "Filer", "EIN" >>, "irs"),
                        Pattern(<< "ReturnHeader", "Filer", "EIN" >>, "default") >>),
        TaxPeriodEndDt |-> Text(HeaderPatterns("TaxPeriodEndDt")),
        ReturnTypeCd |-> Text(HeaderPatterns("ReturnTypeCd")),
        returnVersion |-> x.returnVersion,
        ReturnTs |-> Text(HeaderPatterns("ReturnTs")),
        BusinessNameLine1Txt |->
            Text(<< Pattern(<< "BusinessNameLine1Txt" >>, NULL),
                    Pattern(<< "ReturnHeader", "Filer", "Name", "BusinessNameLine1Txt" >>, "irs"),
                    Pattern(<< "ReturnHeader", "Filer", "Name", "BusinessNameLine1Txt" >>, "default"),
                    Pattern(<< "ReturnHeader", "Filer", "BusinessName", "BusinessNameLine1Txt" >>, "irs") >>),
        AddressLine1Txt |-> Text(AddressPatterns("AddressLine1Txt")),
        AddressLine2Txt |-> Text(AddressPatterns("AddressLine2Txt")),
        CityNm |-> Text(AddressPatterns("CityNm")),
        StateAbbreviationCd |-> Text(<< Pattern(<< "USAddress", "StateAbbreviationCd" >>, NULL) >>),
        ZIPCd |-> Text(<< Pattern(<< "USAddress", "ZIPCd" >>, NULL) >>),
        CountryCd |-> Text(<< Pattern(<< "ForeignAddress", "CountryCd" >>, NULL) >>),
        WebsiteAddressTxt |-> Text(<< Pattern(<< "WebsiteAddressTxt" >>, NULL) >>)]

\* IRS990Transformer._process_xml_file on a parsed document: the result
\* (<<>> for None) and the instance as the call leaves it
ProcessParsedFile(t, x) ==
    IF ~x.wellformed THEN [result |-> << >>, t |-> t]
    ELSE LET m == ExtractMetadata(Summary(x)) IN
         IF m = << >> THEN [result |-> << >>, t |-> t]
         ELSE LET metadata == m[1]
                  namespaces == Namespaces(x.nsmap)
                  rg == ProcessDetectedGroups(t, x.nodes, metadata.filing_id, namespaces)
              IN [result |->
                    << [metadata |-> metadata,
                        organization |-> ExtractOrganizationInfo(Summary(x), metadata.ein),
                        filing_values |-> ExtractScalarValues(t, x.nodes, metadata.filing_id, namespaces),
                        repeating_groups |-> rg.repeating_groups,
                        group_values |-> rg.group_values,
                        xml_hash |-> XmlHash(x)] >>,
                  t |-> rg.t]

\* a return with header, two scalar elements and an officer group of three
\* rows, the second of them empty
HeaderNodes ==
    << El("Return", 0, NULL),
       El("ReturnHeader", 1, NULL),
       El("EIN", 2, "123456789"),
       El("TaxPeriodEndDt", 2, "2020-12-31"),
       El("ReturnTypeCd", 2, "990"),
       El("ReturnData", 1, NULL),
       El("IRS990", 6, NULL) >>

TreeOfficers ==
    [file |-> "t1.xml", wellformed |-> TRUE, returnVersion |-> "2020v1.0", nsmap |-> << >>,
     nodes |-> HeaderNodes \o
        << El("TotalRevenueAmt", 7, "$1,234.50"),
           El("MissionDesc", 7, " feed people "),
           El("OfficerGrp", 7, NULL),
           El("Row", 10, NULL),
           El("PersonNm", 11, "Ann"),
           El("Row", 10, NULL),
           El("Row", 10, NULL),
           El("PersonNm", 14, "Bob"),
           El("compensation_officers_TitleTxt", 14, "CEO") >>]

\* a return whose expense container has two rows of the same name and of
\* different shapes
TreeExpenses ==
    [file |-> "t2.xml", wellformed |-> TRUE, returnVersion |-> NULL, nsmap |-> << >>,
     nodes |-> HeaderNodes \o
        << El("TotalRevenueAmt", 7, "n/a"),
           El("ExpenseGrp", 7, NULL),
           El("Row", 9, NULL),
           El("Desc", 10, "rent"),
           El("Row", 9, NULL),
           El("TotalAmt", 12, "12") >>]

\* a flat return: no container at all, an empty revenue element
TreeFlat ==
    [file |-> "t3.xml", wellformed |-> TRUE, returnVersion |-> NULL, nsmap |-> << >>,
     nodes |-> HeaderNodes \o << El("TotalRevenueAmt", 7, NULL) >>]

\* a return without employer id
TreeNoEIN ==
    [TreeFlat EXCEPT !.file = "t4.xml", !.nodes = [@ EXCEPT ![3] = El("EIN", 2, NULL)]]

\* a return with two containers: officers and expenses, two rows each
TreeTwoGroups ==
    [file |-> "t5.xml", wellformed |-> TRUE, returnVersion |-> NULL, nsmap |-> << >>,
     nodes |-> HeaderNodes \o
        << El("OfficerGrp", 7, NULL),
           El("Row", 8, NULL),
           El("PersonNm", 9, "Ann"),
           El("Row", 8, NULL),
           El("PersonNm", 11, "Bob"),
           El("ExpenseGrp", 7, NULL),
           El("Row", 13, NULL),
           El("Desc", 14, "rent"),
           El("Row", 13, NULL),
           El("expenses_other_Desc", 16, "fees") >>]

TreeDocs == {TreeOfficers, TreeExpenses, TreeFlat, TreeNoEIN, TreeTwoGroups}

-----------------------------------------------------------------------------
(* SpecTransform: an IRS990Transformer is constructed with a concordance   *)
(* file and then transforms parsed documents, one after another.           *)

MaxTransforms == 2   \* documents one transformer instance transforms

AllColumns == {"variable_name", "xpath", "data_type_simple", "rdb_table", "rdb_relationship"}

ConcordanceEntry(var_name, xpath, data_type, rdb_table, relationship) ==
    [variable_name |-> var_name, xpath |-> xpath, data_type_simple |-> data_type,
     rdb_table |-> rdb_table, rdb_relationship |-> relationship]

\* a total-revenue variable kept in filing_values, a mission variable of a
\* table of its own, a row without variable name, a MANY variable of the
\* officers table
CsvFull ==
    [exists |-> TRUE, columns |-> AllColumns,
     rows |-> << ConcordanceEntry("TotalRevenue", "/Return/ReturnData/IRS990/TotalRevenueAmt",
                                  "numeric", "filing_values", "ONE"),
                 ConcordanceEntry("Mission", "/Return/ReturnData/IRS990/MissionDesc",
                                  "text", "return_info", NULL),
                 ConcordanceEntry(NULL, "/Return/ReturnData/IRS990/Other", NULL, NULL, NULL),
                 ConcordanceEntry("PersonNm", "/Return/ReturnData/IRS990/OfficerGrp/Row/PersonNm",
                                  NULL, "compensation_officers", "MANY") >>]

\* the same without the MANY variable: the officers table has no fields
CsvNoMany == [CsvFull EXCEPT !.rows = SubSeq(@, 1, 3)]

\* every variable in a table of its own, one of each declared type and one
\* of a type name the converter does not know
CsvTyped ==
    [CsvFull EXCEPT !.rows =
        << ConcordanceEntry("TotalRevenue", "/Return/ReturnData/IRS990/TotalRevenueAmt",
                            "numeric", "revenue", "ONE"),
           ConcordanceEntry("Mission", "/Return/ReturnData/IRS990/MissionDesc",
                            "memo", "return_info", "ONE"),
           ConcordanceEntry("Filed", "/Return/ReturnHeader/ReturnTypeCd",
                            "checkbox", "return_info", "ONE"),
           ConcordanceEntry("PeriodEnd", "/Return/ReturnHeader/TaxPeriodEndDt",
                            "date", "return_info", "ONE"),
           ConcordanceEntry("PersonNm", "/Return/ReturnData/IRS990/OfficerGrp/Row/PersonNm",
                            NULL, "compensation_officers", "MANY") >>]

\* a file without the location column: every row lacks its xpath
CsvNoXPathColumn ==
    [exists |-> TRUE, columns |-> AllColumns \ {"xpath"},
     rows |-> [i \in 1..Len(CsvFull.rows) |->
                [c \in AllColumns \ {"xpath"} |-> CsvFull.rows[i][c]]]]

\* a file without the variable-name column
CsvNoNameColumn ==
    [exists |-> TRUE, columns |-> AllColumns \ {"variable_name"},
     rows |-> [i \in 1..Len(CsvFull.rows) |->
                [c \in AllColumns \ {"variable_name"} |-> CsvFull.rows[i][c]]]]

CsvMissing == [exists |-> FALSE, columns |-> {}, rows |-> << >>]

ConcordanceFiles == {CsvFull, CsvNoMany, CsvTyped, CsvNoXPathColumn, CsvNoNameColumn, CsvMissing}

InitTransform ==
    /\ InitLoader
    /\ InitDriverOff
    /\ InitPoolOff
    /\ InitDetectOff
    /\ InitConvertOff
    /\ InitFieldsOff
    /\ InitRunOff
    /\ InitLocateOff
    /\ concordance \in ConcordanceFiles
    /\ transformer = NewTransformer
    /\ tpc = "new"
    /\ transformed = << >>

\* IRS990Transformer.__init__: _load_concordance fills the instance or
\* raises ConcordanceError
ConstructTransformer ==
    /\ tpc = "new"
    /\ LET r == LoadConcordance(concordance)
       IN /\ tpc' = IF r.raised THEN "failed" ELSE "ready"
          /\ transformer' = r.t
    /\ UNCHANGED <<concordance, transformed, loaderVars, driverVars, poolVars, detectVars, conversion, fieldstore, run, located>>

\* one turn of the loop of transform: _process_xml_file on the next file
TransformFile ==
    /\ tpc = "ready"
    /\ Len(transformed) < MaxTransforms
    /\ \E x \in TreeDocs :
        LET r == ProcessParsedFile(transformer, x)
        IN /\ transformer' = r.t
           /\ transformed' = Append(transformed, [doc |-> x, before |-> transformer, result |-> r.result])
    /\ UNCHANGED <<concordance, tpc, loaderVars, driverVars, poolVars, detectVars, conversion, fieldstore, run, located>>

NextTransform ==
    \/ ConstructTransformer
    \/ TransformFile

SpecTransform == InitTransform /\ [][NextTransform]_vars

-----------------------------------------------------------------------------
(* SpecConvert: the two converters applied to one raw value of one         *)
(* declared type.                                                          *)

RawValues ==
    {"1,234.50", "$12", "12", "-0.5", "007", "5.", "n/a", "abc-1", "1.2.3", "-", "",
     "True", "x", "no", "2020-12-31"}

DeclaredTypes == {"numeric", "number", "text", "boolean", "checkbox", "date", "memo", NULL}

InitConvert ==
    /\ InitLoader
    /\ InitDriverOff
    /\ InitPoolOff
    /\ InitTransformOff
    /\ InitDetectOff
    /\ InitFieldsOff
    /\ InitRunOff
    /\ InitLocateOff
    /\ \E value \in RawValues : \E data_type \in DeclaredTypes :
          conversion = [value |-> value, data_type |-> data_type,
                        transformer |-> << >>, utils |-> << >>]

\* self._convert_value(value, data_type)
ConvertInTransformer ==
    /\ conversion # << >>
    /\ conversion.transformer = << >>
    /\ conversion' = [conversion EXCEPT
                        !.transformer = << ConvertValue(conversion.value, conversion.data_type) >>]
    /\ UNCHANGED <<loaderVars, driverVars, poolVars, transformVars, detectVars, fieldstore, run, located>>

\* convert_value(value, data_type) of repeating_groups.utils
ConvertInUtils ==
    /\ conversion # << >>
    /\ conversion.utils = << >>
    /\ conversion' = [conversion EXCEPT
                        !.utils = << UtilsConvertValue(conversion.value, conversion.data_type) >>]
    /\ UNCHANGED <<loaderVars, driverVars, poolVars, transformVars, detectVars, fieldstore, run, located>>

NextConvert ==
    \/ ConvertInTransformer
    \/ ConvertInUtils

SpecConvert == InitConvert /\ [][NextConvert]_vars

-----------------------------------------------------------------------------
(* The repeating-group detector (repeating_groups/detector.py and          *)
(* nested_detector.py) on a parsed document without namespaces.  The       *)
(* detector is constructed without namespaces, so a pattern with a prefix  *)
(* raises and is passed over.                                              *)

\* RepeatingGroupDetector._has_repeating_children
DetectorHasRepeatingChildren(nodes, n) ==
    \E a, b \in 1..Len(nodes) :
        a # b /\ nodes[a].parent = n /\ nodes[b].parent = n /\ nodes[a].name = nodes[b].name

GrpPatterns == << "Grp", "Group" >>

CommonGroupPatterns ==
    << "Compensation", "Officer", "Director", "Highest", "Grant",
       "Expense", "Program", "Table", "List", "Schedule" >>

\* search_root.xpath(".//*[contains(local-name(), part)]")
DescendantsByNamePart(nodes, search_root, part) ==
    SelectSeq(DescendantsOf(nodes, search_root), LAMBDA m : Contains(nodes[m].name, part))

\* the items of a list of (element, name) without the later items of an
\* element already seen
RECURSIVE UniqueElements(_)
UniqueElements(list) ==
    IF list = << >> THEN << >>
    ELSE LET front == UniqueElements(SubSeq(list, 1, Len(list) - 1))
             last == list[Len(list)]
         IN IF \E i \in 1..Len(front) : front[i].element = last.element
            THEN front ELSE Append(front, last)

\* RepeatingGroupDetector._identify_potential_groups(root): the ReturnData
\* element is looked up with a pattern that starts with //, which finds it
\* anywhere in the document whatever element root is
IdentifyPotentialGroups(nodes, root) ==
    LET return_data == SelectSeq(AllElements(nodes), LAMBDA m : nodes[m].name = "ReturnData")
        search_root == IF return_data # << >> THEN return_data[1] ELSE root
        ByGrp(part) ==
            LET elements == SelectSeq(DescendantsByNamePart(nodes, search_root, part),
                                      LAMBDA m : DetectorHasRepeatingChildren(nodes, m))
            IN [i \in 1..Len(elements) |-> [element |-> elements[i], name |-> nodes[elements[i]].name]]
        ByCommon(part) ==
            LET elements == SelectSeq(DescendantsByNamePart(nodes, search_root, part),
                                      LAMBDA m : /\ nodes[m].parent # 0
                                                 /\ DetectorHasRepeatingChildren(nodes, nodes[m].parent))
            IN [i \in 1..Len(elements) |->
                    [element |-> nodes[elements[i]].parent, name |-> nodes[elements[i]].name]]
        potential_groups ==
            Flatten([i \in 1..Len(GrpPatterns) |-> ByGrp(GrpPatterns[i])])
                \o Flatten([i \in 1..Len(CommonGroupPatterns) |-> ByCommon(CommonGroupPatterns[i])])
    IN UniqueElements(potential_groups)

\* tuple(sorted(grandchildren_names)): how often each name occurs among the
\* children of the child
StructureKey(nodes, child) ==
    LET names == {nodes[g].name : g \in SeqToSet(ChildrenOf(nodes, child))}
    IN [nm \in names |-> Cardinality({g \in SeqToSet(ChildrenOf(nodes, child)) : nodes[g].name = nm})]

\* RepeatingGroupDetector._validate_groups
ValidateGroups(nodes, potential_groups) ==
    SelectSeq(potential_groups,
        LAMBDA g : \E a, b \in SeqToSet(ChildrenOf(nodes, g.element)) :
                        a # b /\ StructureKey(nodes, a) = StructureKey(nodes, b))

\* RepeatingGroupDetector._extract_group_metadata, without the samples
ExtractGroupMetadata(nodes, g) ==
    [name |-> g.name, path |-> GetPath(nodes, g.element),
     count |-> Len(ChildrenOf(nodes, g.element)), element |-> g.element]

\* (mutant) a prefix test that does not end the parent path at a segment
IsAncestorPathUnaligned(child_path, path) == StartsWith(child_path, path)

\* child_path.startswith(path + "/")
IsAncestorPath(child_path, path) == StartsWith(child_path, path \o "/")

\* the inner loop of build_group_hierarchy: the candidate kept after the
\* paths seen so far
RECURSIVE ClosestParent(_, _, _)
ClosestParent(child_path, paths, parent_path) ==
    IF paths = << >> THEN parent_path
    ELSE LET path == Head(paths)
             skip == path = child_path \/ Len(path) <= Len(parent_path)
         IN ClosestParent(child_path, Tail(paths),
                IF ~skip /\ IsAncestorPath(child_path, path) THEN path ELSE parent_path)

\* build_group_hierarchy on the paths of the groups: the dict child path ->
\* parent path.  group_paths is a dict, so a path listed twice counts once.
BuildGroupHierarchy(paths) ==
    LET group_paths == Unique(paths)
        entries == [i \in 1..Len(group_paths) |->
                        [key |-> group_paths[i], value |-> ClosestParent(group_paths[i], group_paths, "")]]
    IN SelectSeq(entries, LAMBDA e : e.value # "")

\* RepeatingGroupDetector.find_repeating_groups on a parsed document: the
\* hierarchy it leaves in the instance and the groups it returns
FindRepeatingGroups(nodes) ==
    LET validated_groups == ValidateGroups(nodes, IdentifyPotentialGroups(nodes, 1))
        infos == [i \in 1..Len(validated_groups) |-> ExtractGroupMetadata(nodes, validated_groups[i])]
        group_hierarchy == BuildGroupHierarchy([i \in 1..Len(infos) |-> infos[i].path])
    IN [group_hierarchy |-> group_hierarchy,
        results |-> [i \in 1..Len(infos) |->
                        IF DictHas(group_hierarchy, infos[i].path)
                        THEN infos[i] @@ [parent_path |-> DictGet(group_hierarchy, infos[i].path)]
                        ELSE infos[i]]]

\* (mutant) a search that still runs at the level after the last
LevelExhaustedLate(current_level, max_nesting_level) == current_level > max_nesting_level

\* if current_level >= max_nesting_level: return []
LevelExhausted(current_level, max_nesting_level) == current_level >= max_nesting_level

\* root.xpath(parent_group_xpath): the elements of that structural path,
\* paths being the structural path of each element of the document
ElementsAtPath(paths, xpath) == SelectSeq([n \in 1..Len(paths) |-> n], LAMBDA n : paths[n] = xpath)

\* the loop of find_nested_repeating_groups up to the recursion: the groups
\* found from search_root, validated, each with its metadata
NestedGroupInfos(nodes, search_root) ==
    LET validated_groups == ValidateGroups(nodes, IdentifyPotentialGroups(nodes, search_root))
    IN [i \in 1..Len(validated_groups) |-> ExtractGroupMetadata(nodes, validated_groups[i])]

\* RepeatingGroupProcessor._extract_values: one dict per child that has a
\* value; a child without values is left out
ProcessorRowValues(nodes, child_element) ==
    LET grandchildren == ChildrenOf(nodes, child_element)
        Nested(g) ==
            LET ggc == SelectSeq(ChildrenOf(nodes, g), LAMBDA m : HasText(nodes, m))
            IN [i \in 1..Len(ggc) |->
                    [key |-> nodes[g].name \o "_" \o nodes[ggc[i]].name, value |-> Strip(nodes[ggc[i]].text)]]
        items == Flatten([i \in 1..Len(grandchildren) |->
                    IF HasText(nodes, grandchildren[i])
                    THEN << [key |-> nodes[grandchildren[i]].name,
                             value |-> Strip(nodes[grandchildren[i]].text)] >> \o Nested(grandchildren[i])
                    ELSE << >>])
        RECURSIVE Put(_, _)
        Put(d, rest) == IF rest = << >> THEN d ELSE Put(DictPut(d, Head(rest).key, Head(rest).value), Tail(rest))
    IN Put(<< >>, items)

ProcessorExtractValues(nodes, element) ==
    SelectSeq([i \in 1..Len(ChildrenOf(nodes, element)) |->
                    ProcessorRowValues(nodes, ChildrenOf(nodes, element)[i])],
              LAMBDA row_values : row_values # << >>)

\* RepeatingGroupProcessor._store_values: the rows inserted into
\* repeating_group_values, the field named instead of numbered
ProcessorStoreValues(group, values) ==
    Flatten([idx \in 1..Len(values) |->
        [k \in 1..Len(values[idx]) |->
            [group |-> group.path, field_name |-> values[idx][k].key,
             value |-> values[idx][k].value, instance_index |-> idx - 1]]])

-----------------------------------------------------------------------------
(* SpecDetect: RepeatingGroupProcessor.process_repeating_groups on one     *)
(* document: find_nested_groups, the recursion of                          *)
(* find_nested_repeating_groups run frame by frame, then _process_group    *)
(* for each group found.                                                   *)

MaxDepth == 3   \* the largest max_nesting_level a detector is constructed with

\* three officer rows, the second without content; a pay group with two
\* items in the first row and one with a single item in the third
OfficerRows(grp) ==
    << El("Row", grp, NULL),
       El("PersonNm", grp + 1, "Ann"),
       El("PayGrp", grp + 1, NULL),
       El("Item", grp + 3, NULL),
       El("Amt", grp + 4, "1"),
       El("Item", grp + 3, NULL),
       El("Amt", grp + 6, "2"),
       El("Row", grp, NULL),
       El("Row", grp, NULL),
       El("PersonNm", grp + 9, " Bob "),
       El("PayGrp", grp + 9, NULL),
       El("Item", grp + 11, NULL),
       El("Amt", grp + 12, "3") >>

\* a return whose data hold the officers group
DocReturn ==
    [file |-> "d1.xml",
     nodes |-> << El("Return", 0, NULL), El("ReturnData", 1, NULL), El("OfficerGrp", 2, NULL) >>
               \o OfficerRows(3)]

\* the same group in a document without ReturnData element
DocPlain ==
    [file |-> "d2.xml",
     nodes |-> << El("Filing", 0, NULL), El("OfficerGrp", 1, NULL) >> \o OfficerRows(2)]

\* a group whose rows carry a name of the common patterns, and a second
\* group next to it
DocList ==
    [file |-> "d3.xml",
     nodes |-> << El("Filing", 0, NULL),
                  El("StaffGrp", 1, NULL),
                  El("OfficerRow", 2, NULL), El("Nm", 3, "Ann"),
                  El("OfficerRow", 2, NULL), El("Nm", 5, "Bob"),
                  El("GrantGrp", 1, NULL),
                  El("Row", 7, NULL), El("Amt", 8, "5"),
                  El("Row", 7, NULL), El("Amt", 10, "6") >>]

\* containers that are no repeating groups: one child only, and children
\* of all distinct shapes
DocFlat ==
    [file |-> "d4.xml",
     nodes |-> << El("Return", 0, NULL), El("ReturnData", 1, NULL),
                  El("OneGrp", 2, NULL), El("Row", 3, NULL), El("Amt", 4, "1"),
                  El("MixedGrp", 2, NULL),
                  El("Row", 6, NULL), El("Desc", 7, "rent"),
                  El("Row", 6, NULL), El("TotalAmt", 9, "12") >>]

DetectDocs == {DocReturn, DocPlain, DocList, DocFlat}

\* The functions of the detector and the processor, tabulated over the
\* documents: what find_repeating_groups gives for the document, the
\* structural path of each element, the groups a nested search started at
\* each element finds, and the values _extract_values reads below each element
FoundIn == [x \in DetectDocs |-> FindRepeatingGroups(x.nodes)]

PathsIn == [x \in DetectDocs |-> [n \in 1..Len(x.nodes) |-> GetPath(x.nodes, n)]]

NestedIn == [x \in DetectDocs |-> [n \in 1..Len(x.nodes) |-> NestedGroupInfos(x.nodes, n)]]

ValuesIn == [x \in DetectDocs |-> [n \in 1..Len(x.nodes) |-> ProcessorExtractValues(x.nodes, n)]]

\* a call of find_nested_repeating_groups up to its loop: no frame when it
\* returns [] at once, else the frame of the loop over the groups found
NestedCall(x, parent_group_xpath, max_nesting_level, current_level) ==
    LET parent_elements == ElementsAtPath(PathsIn[x], parent_group_xpath) IN
    IF LevelExhausted(current_level, max_nesting_level) \/ parent_elements = << >>
    THEN << >>
    ELSE << [parent_group_xpath |-> parent_group_xpath,
             current_level |-> current_level,
             groups |-> NestedIn[x][parent_elements[1]],
             next |-> 1] >>

InitDetect ==
    /\ InitLoader
    /\ InitDriverOff
    /\ InitPoolOff
    /\ InitTransformOff
    /\ InitConvertOff
    /\ InitFieldsOff
    /\ InitRunOff
    /\ InitLocateOff
    /\ \E max_nesting_level \in 0..MaxDepth :
          detector = [max_nesting_level |-> max_nesting_level, group_hierarchy |-> << >>]
    /\ \E x \in DetectDocs :
          search = [doc |-> x, pc |-> "start", top_level_groups |-> << >>, group |-> 1,
                    stack |-> << >>, returned |-> << >>, stored |-> << >>]

\* find_nested_groups, first statement: self.find_repeating_groups
FindTopLevelGroups ==
    /\ search # << >>
    /\ search.pc = "start"
    /\ LET found == FoundIn[search.doc]
       IN /\ detector' = [detector EXCEPT !.group_hierarchy = found.group_hierarchy]
          /\ search' = [search EXCEPT !.pc = "nested", !.top_level_groups = found.results, !.group = 1]
    /\ UNCHANGED <<loaderVars, driverVars, poolVars, transformVars, conversion, fieldstore, run, located>>

\* the loop of find_nested_groups: the nested search of the next top-level
\* group is called at level 1
CallNestedSearch ==
    /\ search # << >>
    /\ search.pc = "nested"
    /\ search.stack = << >>
    /\ search.group <= Len(search.top_level_groups)
    /\ LET frame == NestedCall(search.doc, search.top_level_groups[search.group].path,
                               detector.max_nesting_level, 1)
       IN search' = [search EXCEPT !.stack = frame,
                                   !.group = IF frame = << >> THEN @ + 1 ELSE @]
    /\ UNCHANGED <<detector, loaderVars, driverVars, poolVars, transformVars, conversion, fieldstore, run, located>>

\* one turn of the loop of find_nested_repeating_groups in the innermost
\* call: the group is added to the results with its level and parent, and
\* the search is called for it one level deeper if the level allows
VisitNestedGroup ==
    /\ search # << >>
    /\ search.stack # << >>
    /\ LET top == Len(search.stack)
           frame == search.stack[top]
       IN /\ frame.next <= Len(frame.groups)
          /\ LET group_info == frame.groups[frame.next]
                 deeper == IF frame.current_level + 1 < detector.max_nesting_level
                           THEN NestedCall(search.doc, group_info.path,
                                           detector.max_nesting_level, frame.current_level + 1)
                           ELSE << >>
             IN search' = [search EXCEPT
                    !.returned = Append(@, [path |-> group_info.path, name |-> group_info.name,
                                            nesting_level |-> frame.current_level + 1,
                                            parent_xpath |-> frame.parent_group_xpath]),
                    !.stack = [@ EXCEPT ![top].next = frame.next + 1] \o deeper]
    /\ UNCHANGED <<detector, loaderVars, driverVars, poolVars, transformVars, conversion, fieldstore, run, located>>

\* return results: the innermost call ends; after the outermost, the loop of
\* find_nested_groups goes on with the next top-level group
ReturnNestedGroups ==
    /\ search # << >>
    /\ search.stack # << >>
    /\ LET top == Len(search.stack)
           frame == search.stack[top]
       IN /\ frame.next > Len(frame.groups)
          /\ search' = [search EXCEPT !.stack = SubSeq(@, 1, top - 1),
                                      !.group = IF top = 1 THEN @ + 1 ELSE @]
    /\ UNCHANGED <<detector, loaderVars, driverVars, poolVars, transformVars, conversion, fieldstore, run, located>>

\* return top_level_groups
ReturnTopLevelGroups ==
    /\ search # << >>
    /\ search.pc = "nested"
    /\ search.stack = << >>
    /\ search.group > Len(search.top_level_groups)
    /\ search' = [search EXCEPT !.pc = "detected", !.group = 1]
    /\ UNCHANGED <<detector, loaderVars, driverVars, poolVars, transformVars, conversion, fieldstore, run, located>>

\* RepeatingGroupProcessor._process_group for the next group: its values
\* are extracted and stored
ProcessGroup ==
    /\ search # << >>
    /\ search.pc = "detected"
    /\ search.group <= Len(search.top_level_groups)
    /\ LET group == search.top_level_groups[search.group]
           values == ValuesIn[search.doc][group.element]
       IN search' = [search EXCEPT !.stored = @ \o ProcessorStoreValues(group, values),
                                   !.group = @ + 1]
    /\ UNCHANGED <<detector, loaderVars, driverVars, poolVars, transformVars, conversion, fieldstore, run, located>>

\* process_repeating_groups returns
FinishProcessing ==
    /\ search # << >>
    /\ search.pc = "detected"
    /\ search.group > Len(search.top_level_groups)
    /\ search' = [search EXCEPT !.pc = "done"]
    /\ UNCHANGED <<detector, loaderVars, driverVars, poolVars, transformVars, conversion, fieldstore, run, located>>

NextDetect ==
    \/ FindTopLevelGroups
    \/ CallNestedSearch
    \/ VisitNestedGroup
    \/ ReturnNestedGroups
    \/ ReturnTopLevelGroups
    \/ ProcessGroup
    \/ FinishProcessing

SpecDetect == InitDetect /\ [][NextDetect]_vars

\* the calls are run to their end: no step that can be taken is put off for ever
SpecDetectFair == SpecDetect /\ WF_vars(NextDetect)

-----------------------------------------------------------------------------
(* SpecHierarchy: build_group_hierarchy applied to a list of confirmed     *)
(* groups, given by their structural paths in the order they are listed.   *)

MaxGroups == 3   \* confirmed groups in one list

GroupPaths == {"/a", "/a/b", "/a/b/c", "/a/bc", "/x/y"}

RECURSIVE PathLists(_)
PathLists(n) ==
    IF n = 0 THEN {<< >>}
    ELSE PathLists(n - 1) \cup {Append(l, q) : l \in {m \in PathLists(n - 1) : Len(m) = n - 1}, q \in GroupPaths}

InitHierarchy ==
    /\ InitLoader
    /\ InitDriverOff
    /\ InitPoolOff
    /\ InitTransformOff
    /\ InitConvertOff
    /\ InitFieldsOff
    /\ InitRunOff
    /\ InitLocateOff
    /\ detector = [max_nesting_level |-> MaxDepth, group_hierarchy |-> << >>]
    /\ \E groups \in PathLists(MaxGroups) : search = [pc |-> "groups", groups |-> groups]

\* self.group_hierarchy = build_group_hierarchy(validated_groups, root)
BuildHierarchy ==
    /\ search # << >>
    /\ search.pc = "groups"
    /\ detector' = [detector EXCEPT !.group_hierarchy = BuildGroupHierarchy(search.groups)]
    /\ search' = [search EXCEPT !.pc = "built"]
    /\ UNCHANGED <<loaderVars, driverVars, poolVars, transformVars, conversion, fieldstore, run, located>>

NextHierarchy == BuildHierarchy

SpecHierarchy == InitHierarchy /\ [][NextHierarchy]_vars

-----------------------------------------------------------------------------
(* SpecFields: RepeatingGroupProcessor._store_values and                   *)
(* _store_nested_values run statement by statement by processors that each *)
(* hold a connection of their own. A connection sees the committed rows    *)
(* and the rows it inserted itself (PostgreSQL's default isolation).       *)

MaxStores == 2     \* store calls made in one behaviour

\* two processors, each constructed with a db_conn of its own
Sessions == {1, 2}

\* re.match(r'\d{4}-\d{2}-\d{2}', value) or re.match(r'\d{2}/\d{2}/\d{4}', value)
MatchesDatePattern(value) ==
    \/ /\ Len(value) >= 10
       /\ AllDigits(SubSeq(value, 1, 4)) /\ SubSeq(value, 5, 5) = "-"
       /\ AllDigits(SubSeq(value, 6, 7)) /\ SubSeq(value, 8, 8) = "-"
       /\ AllDigits(SubSeq(value, 9, 10))
    \/ /\ Len(value) >= 10
       /\ AllDigits(SubSeq(value, 1, 2)) /\ SubSeq(value, 3, 3) = "/"
       /\ AllDigits(SubSeq(value, 4, 5)) /\ SubSeq(value, 6, 6) = "/"
       /\ AllDigits(SubSeq(value, 7, 10))

\* re.sub(r'[,$%()]', '', value)
RECURSIVE RemoveFormatting(_)
RemoveFormatting(value) ==
    IF value = "" THEN ""
    ELSE (IF SubSeq(value, 1, 1) \in {",", "$", "%", "(", ")"} THEN "" ELSE SubSeq(value, 1, 1))
            \o RemoveFormatting(SubSeq(value, 2, Len(value)))

\* float(s) accepts s, for the texts the stores are given (letters, digits,
\* points and signs)
FloatAccepts(s) == Keep(s, Digits \cup {".", "-"}) = s /\ ParsesAsFloat(s)

\* utils.guess_data_type(element_name, value): the definition in force, the
\* second of the two in the module
GuessDataType(element_name, value) ==
    LET lower_name == Lower(element_name) IN
    IF value = NULL THEN "text"
    ELSE IF Contains(lower_name, "ind") \/ Contains(lower_name, "flag")
              \/ Contains(lower_name, "bool") THEN "boolean"
    ELSE IF \E w \in {"amt", "amount", "total", "num", "count"} : Contains(lower_name, w)
         THEN "number"
    ELSE IF \E w \in {"date", "dt", "year"} : Contains(lower_name, w) THEN "date"
    ELSE IF value = "" THEN "text"
    ELSE IF FloatAccepts(RemoveFormatting(value)) THEN "number"
    ELSE IF Lower(value) \in {"true", "false", "yes", "no", "1", "0", "t", "f", "y", "n"}
         THEN "boolean"
    ELSE IF MatchesDatePattern(value) THEN "date"
    ELSE "text"

\* the lists of row dicts a store is called with
StoreValueLists ==
    { << << [key |-> "PersonNm", value |-> "Ann"] >> >>,
      << << [key |-> "PersonNm", value |-> "Ann"], [key |-> "Amt", value |-> "1"] >> >>,
      << << [key |-> "PersonNm", value |-> "Ann"] >>, << [key |-> "PersonNm", value |-> "Bob"] >> >> }

\* for idx, row_values in enumerate(values): for field_name, field_value in
\* row_values.items(): the iterations in order
StoreItems(values) ==
    Flatten([idx \in 1..Len(values) |->
        [k \in 1..Len(values[idx]) |->
            [field_name |-> values[idx][k].key, field_value |-> values[idx][k].value,
             idx |-> idx - 1]]])

\* the rows of a table a connection sees: the committed ones (session 0) and
\* its own
VisibleTo(s, rows) == SelectSeq(rows, LAMBDA row : row.session \in {0, s})

\* conn.commit() and conn.rollback() on the rows of a table
CommitRows(s, rows) ==
    [i \in 1..Len(rows) |-> IF rows[i].session = s THEN [rows[i] EXCEPT !.session = 0] ELSE rows[i]]

RollbackRows(s, rows) == SelectSeq(rows, LAMBDA row : row.session # s)

IdleSession == [pc |-> "idle", kind |-> "none", todo |-> << >>, group_id |-> 0,
                field_id |-> 0, result |-> "none"]

\* field_definitions as earlier committed stores left it
StoredFieldDefinitions ==
    { << >>,
      << [field_id |-> 1, name |-> "PersonNm", xpath |-> "//PersonNm",
          field_type |-> "text", session |-> 0] >> }

InitFields ==
    /\ InitLoader
    /\ InitDriverOff
    /\ InitPoolOff
    /\ InitTransformOff
    /\ InitDetectOff
    /\ InitConvertOff
    /\ InitRunOff
    /\ InitLocateOff
    /\ \E rows \in StoredFieldDefinitions :
          fieldstore = [field_definitions |-> rows,
                        field_seq |-> Len(rows),
                        repeating_groups |-> << >>,
                        repeating_group_values |-> {},
                        sessions |-> [s \in Sessions |-> IdleSession],
                        stores |-> 0]

Session(s) == fieldstore.sessions[s]

\* what follows the iteration that was just finished
NextItem(todo) == IF todo = << >> THEN "finish" ELSE "select"

\* _store_values / _store_nested_values up to the loop: INSERT INTO
\* repeating_groups ... RETURNING group_id
BeginStore(s, kind, values) ==
    LET group_id == Len(fieldstore.repeating_groups) + 1
        todo == StoreItems(values)
    IN fieldstore' = [fieldstore EXCEPT
          !.repeating_groups = Append(@, [group_id |-> group_id, kind |-> kind, session |-> s]),
          !.stores = @ + 1,
          !.sessions[s] = [pc |-> NextItem(todo), kind |-> kind, todo |-> todo,
                           group_id |-> group_id, field_id |-> 0, result |-> "none"]]

StoreValues ==
    /\ fieldstore # << >>
    /\ fieldstore.stores < MaxStores
    /\ \E s \in Sessions : \E values \in StoreValueLists :
          /\ Session(s).pc = "idle"
          /\ BeginStore(s, "top", values)
    /\ UNCHANGED <<loaderVars, driverVars, poolVars, transformVars, detectVars, conversion, run, located>>

StoreNestedValues ==
    /\ fieldstore # << >>
    /\ fieldstore.stores < MaxStores
    /\ \E s \in Sessions : \E values \in StoreValueLists :
          /\ Session(s).pc = "idle"
          /\ BeginStore(s, "nested", values)
    /\ UNCHANGED <<loaderVars, driverVars, poolVars, transformVars, detectVars, conversion, run, located>>

\* SELECT field_id FROM field_definitions WHERE name = %s; fetchone(): any of
\* the matching rows the connection sees (the query has no ORDER BY), or none.
\* _store_nested_values skips a None value before the query.
SelectFieldDefinition ==
    /\ fieldstore # << >>
    /\ \E s \in Sessions :
        /\ Session(s).pc = "select"
        /\ LET item == Head(Session(s).todo)
               seen == SelectSeq(VisibleTo(s, fieldstore.field_definitions),
                                 LAMBDA row : row.name = item.field_name)
           IN IF Session(s).kind = "nested" /\ item.field_value = NULL
              THEN fieldstore' = [fieldstore EXCEPT
                      !.sessions[s].todo = Tail(@),
                      !.sessions[s].pc = NextItem(Tail(Session(s).todo))]
              ELSE IF seen = << >>
              THEN fieldstore' = [fieldstore EXCEPT !.sessions[s].pc = "insert"]
              ELSE \E i \in 1..Len(seen) :
                      fieldstore' = [fieldstore EXCEPT
                          !.sessions[s].field_id = seen[i].field_id,
                          !.sessions[s].pc = "value"]
    /\ UNCHANGED <<loaderVars, driverVars, poolVars, transformVars, detectVars, conversion, run, located>>

\* the else branch. _store_values: guess_data_type(field_name, field_value),
\* then INSERT INTO field_definitions ... RETURNING field_id.
\* _store_nested_values: guess_data_type(field_value), one argument for a
\* function of two: TypeError, caught by `except Exception`, which returns
\* None without a rollback on the processor's own connection.
InsertFieldDefinition ==
    /\ fieldstore # << >>
    /\ \E s \in Sessions :
        /\ Session(s).pc = "insert"
        /\ LET item == Head(Session(s).todo)
               field_id == fieldstore.field_seq + 1
           IN IF Session(s).kind = "top"
              THEN fieldstore' = [fieldstore EXCEPT
                      !.field_definitions =
                          Append(@, [field_id |-> field_id, name |-> item.field_name,
                                     xpath |-> "//" \o item.field_name,
                                     field_type |-> GuessDataType(item.field_name, item.field_value),
                                     session |-> s]),
                      !.field_seq = field_id,
                      !.sessions[s].field_id = field_id,
                      !.sessions[s].pc = "value"]
              ELSE fieldstore' = [fieldstore EXCEPT
                      !.sessions[s] = [IdleSession EXCEPT !.result = "TypeError"]]
    /\ UNCHANGED <<loaderVars, driverVars, poolVars, transformVars, detectVars, conversion, run, located>>

\* INSERT INTO repeating_group_values (group_id, field_id, value, instance_index);
\* _store_values inserts only a value that is not None
InsertGroupValue ==
    /\ fieldstore # << >>
    /\ \E s \in Sessions :
        /\ Session(s).pc = "value"
        /\ LET item == Head(Session(s).todo)
               row == [group_id |-> Session(s).group_id, field_name |-> item.field_name,
                       field_id |-> Session(s).field_id, instance_index |-> item.idx]
           IN fieldstore' = [fieldstore EXCEPT
                  !.repeating_group_values =
                      IF item.field_value = NULL THEN @ ELSE @ \cup {row},
                  !.sessions[s].todo = Tail(@),
                  !.sessions[s].pc = NextItem(Tail(Session(s).todo))]
    /\ UNCHANGED <<loaderVars, driverVars, poolVars, transformVars, detectVars, conversion, run, located>>

\* after the loop. _store_values: self.db_conn.commit() and the "stored"
\* dict. _store_nested_values: the result dict, no commit on a connection
\* the processor was given.
FinishStore ==
    /\ fieldstore # << >>
    /\ \E s \in Sessions :
        /\ Session(s).pc = "finish"
        /\ IF Session(s).kind = "top"
           THEN fieldstore' = [fieldstore EXCEPT
                   !.field_definitions = CommitRows(s, @),
                   !.repeating_groups = CommitRows(s, @),
                   !.sessions[s] = [IdleSession EXCEPT !.result = "stored"]]
           ELSE fieldstore' = [fieldstore EXCEPT
                   !.sessions[s] = [IdleSession EXCEPT !.result = "stored"]]
    /\ UNCHANGED <<loaderVars, driverVars, poolVars, transformVars, detectVars, conversion, run, located>>

NextFields ==
    \/ StoreValues
    \/ StoreNestedValues
    \/ SelectFieldDefinition
    \/ InsertFieldDefinition
    \/ InsertGroupValue
    \/ FinishStore

SpecFields == InitFields /\ [][NextFields]_vars

\* the committed rows of field_definitions
CommittedFieldDefinitions == VisibleTo(0, fieldstore.field_definitions)

-----------------------------------------------------------------------------
(* SpecRun: one batch run, by either driver.                               *)
(* BatchProcessor.process_directory cuts the files found into batches and  *)
(* runs _process_file for every file of a batch on a ThreadPoolExecutor,   *)
(* counting the results in the calling thread as the tasks complete.       *)
(* The batch_etl script processes the files found one after the other.     *)
(* What extract, transform and load do to a document is left open here:    *)
(* each either returns or raises.                                          *)

MaxPoolThreads == 2   \* the largest max_workers a BatchProcessor is constructed with

\* directories as os.walk lists them: the files of each in listing order
Directories ==
    { << [root |-> "x", files |-> << >>] >>,
      << [root |-> "x", files |-> << "a.xml" >>] >>,
      << [root |-> "x", files |-> << "d.xml", "a.xml", "c.txt" >>],
         [root |-> "x/y", files |-> << "b.XML", "e.xml" >>] >> }

\* sorted(files), for the names above
Sorted(names) ==
    SelectSeq(<< "a.xml", "b.XML", "c.txt", "d.xml", "e.xml" >>,
              LAMBDA name : \E i \in 1..Len(names) : names[i] = name)

EndsWith(s, suffix) ==
    Len(suffix) <= Len(s) /\ SubSeq(s, Len(s) - Len(suffix) + 1, Len(s)) = suffix

\* BatchProcessor._find_xml_files: glob(directory/**/*.xml, recursive=True)
GlobXmlFiles(directory) ==
    Flatten([d \in 1..Len(directory) |->
        LET matching == SelectSeq(directory[d].files, LAMBDA file : EndsWith(file, ".xml"))
        IN [k \in 1..Len(matching) |-> directory[d].root \o "/" \o matching[k]]])

\* find_xml_files(directory, limit): the walk stops at the limit; a limit of
\* None or 0 is no limit
RECURSIVE WalkFiles(_, _, _, _)
WalkFiles(directory, d, limit, xml_files) ==
    IF d > Len(directory) THEN xml_files
    ELSE LET candidates == SelectSeq(Sorted(directory[d].files),
                                     LAMBDA file : EndsWith(Lower(file), ".xml"))
             room == IF limit = 0 THEN Len(candidates)
                     ELSE Min(Len(candidates), limit - Len(xml_files))
             found == xml_files \o
                      [k \in 1..room |-> directory[d].root \o "/" \o candidates[k]]
         IN IF limit # 0 /\ Len(found) >= limit THEN found
            ELSE WalkFiles(directory, d + 1, limit, found)

FindXmlFiles(directory, limit) == WalkFiles(directory, 1, limit, << >>)

\* args.limit: absent (0 here, which the script treats alike) or a count
Limits == 0..3

InitRun ==
    /\ InitLoader
    /\ InitDriverOff
    /\ InitPoolOff
    /\ InitTransformOff
    /\ InitDetectOff
    /\ InitConvertOff
    /\ InitFieldsOff
    /\ InitLocateOff
    /\ \E driver \in {"processor", "script"} : \E directory \in Directories :
       \E limit \in Limits : \E size \in BatchSizes : \E max_workers \in 1..MaxPoolThreads :
          /\ driver = "processor" => limit = 0
          /\ driver = "script" => size = 1 /\ max_workers = 1
          /\ run = [driver |-> driver, directory |-> directory, limit |-> limit,
                    batch_size |-> size, max_workers |-> max_workers,
                    phase |-> "start", xml_files |-> << >>, i |-> 0,
                    stage |-> << >>, steps |-> << >>, result |-> << >>,
                    succeeded |-> 0, failed |-> 0, order |-> << >>,
                    results |-> << >>, report |-> << >>]

runFrame == <<loaderVars, driverVars, poolVars, transformVars, detectVars, conversion, fieldstore, located>>

\* the tables of a run over the files found: nothing started
Found(xml_files, phase) ==
    [run EXCEPT !.xml_files = xml_files, !.phase = phase,
                !.stage = [t \in 1..Len(xml_files) |-> "none"],
                !.steps = [t \in 1..Len(xml_files) |-> << >>],
                !.result = [t \in 1..Len(xml_files) |-> << >>]]

\* process_directory up to the loop
ProcessDirectory ==
    /\ run # << >> /\ run.driver = "processor" /\ run.phase = "start"
    /\ LET xml_files == GlobXmlFiles(run.directory)
       IN IF xml_files = << >>
          THEN run' = [Found(xml_files, "done") EXCEPT
                          !.report = [success |-> TRUE, files_processed |-> 0]]
          ELSE run' = Found(xml_files, "batch")
    /\ UNCHANGED runFrame

\* the files of the batch that starts after file i
BatchOf(r) == {t \in 1..Len(r.xml_files) : r.i < t /\ t <= r.i + r.batch_size}

\* _process_batch up to the as_completed loop: one task submitted per file
ProcessBatch ==
    /\ run # << >> /\ run.phase = "batch" /\ run.i < Len(run.xml_files)
    /\ run' = [run EXCEPT
          !.stage = [t \in 1..Len(run.xml_files) |-> IF t \in BatchOf(run) THEN "queued" ELSE @[t]],
          !.succeeded = 0, !.failed = 0, !.phase = "collect"]
    /\ UNCHANGED runFrame

Running(r) == {t \in 1..Len(r.xml_files) : r.stage[t] \in {"extract", "transform", "load"}}

\* a thread of the executor takes a queued task
StartTask ==
    /\ run # << >> /\ run.driver = "processor"
    /\ Cardinality(Running(run)) < run.max_workers
    /\ \E t \in 1..Len(run.xml_files) :
          /\ run.stage[t] = "queued"
          /\ run' = [run EXCEPT !.stage[t] = "extract"]
    /\ UNCHANGED runFrame

\* (mutant) a step that is tried again after it raised
StepRetried(t, name, next, ok) ==
    run' = [run EXCEPT
        !.steps[t] = Append(@, name),
        !.stage[t] = IF ok THEN next ELSE name,
        !.result[t] = IF ~ok THEN << [success |-> FALSE, error |-> name] >>
                      ELSE IF next = "returned" THEN << [success |-> TRUE] >>
                      ELSE @]

\* one of the three calls of _process_file's try block: it returns, and the
\* next follows, or it raises, and the except clause returns the failure
Step(t, name, next, ok) ==
    run' = [run EXCEPT
        !.steps[t] = Append(@, name),
        !.stage[t] = IF ok THEN next ELSE "returned",
        !.result[t] = IF ~ok THEN << [success |-> FALSE, error |-> name] >>
                      ELSE IF next = "returned" THEN << [success |-> TRUE] >>
                      ELSE @]

ExtractStep ==
    /\ run # << >>
    /\ \E t \in 1..Len(run.xml_files) : \E ok \in BOOLEAN :
          run.stage[t] = "extract" /\ Step(t, "extract", "transform", ok)
    /\ UNCHANGED runFrame

TransformStep ==
    /\ run # << >>
    /\ \E t \in 1..Len(run.xml_files) : \E ok \in BOOLEAN :
          run.stage[t] = "transform" /\ Step(t, "transform", "load", ok)
    /\ UNCHANGED runFrame

LoadStep ==
    /\ run # << >>
    /\ \E t \in 1..Len(run.xml_files) : \E ok \in BOOLEAN :
          run.stage[t] = "load" /\ Step(t, "load", "returned", ok)
    /\ UNCHANGED runFrame

\* (mutant) a loop that counts the successes only
CollectResultSuccessOnly ==
    /\ run # << >> /\ run.phase = "collect"
    /\ \E t \in 1..Len(run.xml_files) :
          /\ run.stage[t] = "returned"
          /\ run' = [run EXCEPT
                !.stage[t] = "collected",
                !.order = Append(@, t),
                !.succeeded = IF run.result[t][1].success THEN @ + 1 ELSE @]
    /\ UNCHANGED runFrame

\* one turn of `for future in as_completed(future_to_file)`
CollectResult ==
    /\ run # << >> /\ run.phase = "collect"
    /\ \E t \in 1..Len(run.xml_files) :
          /\ run.stage[t] = "returned"
          /\ run' = [run EXCEPT
                !.stage[t] = "collected",
                !.order = Append(@, t),
                !.succeeded = IF run.result[t][1].success THEN @ + 1 ELSE @,
                !.failed = IF run.result[t][1].success THEN @ ELSE @ + 1]
    /\ UNCHANGED runFrame

\* the executor has joined: loader.close() and the batch's counts
FinishBatch ==
    /\ run # << >> /\ run.phase = "collect"
    /\ \A t \in BatchOf(run) : run.stage[t] = "collected"
    /\ run' = [run EXCEPT
          !.results = Append(@, [files_processed |-> Cardinality(BatchOf(run)),
                                 files_succeeded |-> run.succeeded,
                                 files_failed |-> run.failed]),
          !.i = @ + run.batch_size,
          !.phase = "batch"]
    /\ UNCHANGED runFrame

RECURSIVE SumOf(_, _)
SumOf(rs, key) == IF rs = << >> THEN 0 ELSE Head(rs)[key] + SumOf(Tail(rs), key)

\* process_directory after the loop
CombineResults ==
    /\ run # << >> /\ run.phase = "batch" /\ run.i >= Len(run.xml_files)
    /\ run' = [run EXCEPT
          !.report = [success |-> TRUE,
                      files_processed |-> SumOf(run.results, "files_processed"),
                      files_succeeded |-> SumOf(run.results, "files_succeeded"),
                      files_failed |-> SumOf(run.results, "files_failed")],
          !.phase = "done"]
    /\ UNCHANGED runFrame

\* batch_etl.main up to the loop
MainFindFiles ==
    /\ run # << >> /\ run.driver = "script" /\ run.phase = "start"
    /\ run' = Found(FindXmlFiles(run.directory, run.limit), "files")
    /\ UNCHANGED runFrame

\* transformer.transform_file(xml_file); when it raises, the result stays
\* success False, gets the error and is appended
MainTransformFile ==
    /\ run # << >> /\ run.phase = "files" /\ run.i < Len(run.xml_files)
    /\ run.stage[run.i + 1] = "none"
    /\ \E ok \in BOOLEAN :
        LET t == run.i + 1
            result == [file |-> run.xml_files[t], success |-> FALSE, error |-> "transform"]
        IN run' = [run EXCEPT
              !.steps[t] = Append(@, "transform"),
              !.stage[t] = IF ok THEN "load" ELSE "collected",
              !.result[t] = IF ok THEN @ ELSE << result >>,
              !.results = IF ok THEN @ ELSE Append(@, result),
              !.i = IF ok THEN @ ELSE @ + 1]
    /\ UNCHANGED runFrame

\* loader.load_filing(conn, filing_data); conn.commit()
MainLoadFiling ==
    /\ run # << >> /\ run.phase = "files" /\ run.i < Len(run.xml_files)
    /\ run.stage[run.i + 1] = "load"
    /\ \E ok \in BOOLEAN :
        LET t == run.i + 1
            result == IF ok THEN [file |-> run.xml_files[t], success |-> TRUE]
                      ELSE [file |-> run.xml_files[t], success |-> FALSE, error |-> "load"]
        IN run' = [run EXCEPT
              !.steps[t] = Append(@, "load"),
              !.stage[t] = "collected",
              !.result[t] = << result >>,
              !.results = Append(@, result),
              !.i = @ + 1]
    /\ UNCHANGED runFrame

\* main after the loop: the counts it logs
MainFinish ==
    /\ run # << >> /\ run.phase = "files" /\ run.i >= Len(run.xml_files)
    /\ LET success_count == Len(SelectSeq(run.results, LAMBDA r : r.success))
       IN run' = [run EXCEPT
             !.report = [files_processed |-> Len(run.results),
                         files_succeeded |-> success_count,
                         files_failed |-> Len(run.results) - success_count],
             !.phase = "done"]
    /\ UNCHANGED runFrame

NextRun ==
    \/ ProcessDirectory
    \/ ProcessBatch
    \/ StartTask
    \/ ExtractStep
    \/ TransformStep
    \/ LoadStep
    \/ CollectResult
    \/ FinishBatch
    \/ CombineResults
    \/ MainFindFiles
    \/ MainTransformFile
    \/ MainLoadFiling
    \/ MainFinish

SpecRun == InitRun /\ [][NextRun]_vars

-----------------------------------------------------------------------------
(* SpecLocate: one concordance location expression evaluated by            *)
(* _extract_value_from_xml on two serializations of the same document,     *)
(* which bind the namespace of its elements under different prefixes (or   *)
(* as the default namespace).                                              *)

IrsUri == "urn:irs"

\* an element in a namespace
ElNs(name, parent, text, ns) == [name |-> name, parent |-> parent, text |-> text, ns |-> ns]

\* the trees: every element in the IRS namespace; the same with an
\* unqualified EIN element in front of the qualified one; no namespace at all
LocateTrees ==
    { << ElNs("Return", 0, NULL, IrsUri), ElNs("ReturnHeader", 1, NULL, IrsUri),
         ElNs("EIN", 2, "123456789", IrsUri), ElNs("TaxYr", 2, NULL, IrsUri) >>,
      << ElNs("Return", 0, NULL, IrsUri), ElNs("ReturnHeader", 1, NULL, IrsUri),
         El("EIN", 2, "000000000"), ElNs("EIN", 2, "123456789", IrsUri) >>,
      << El("Return", 0, NULL), El("ReturnHeader", 1, NULL), El("EIN", 2, "123456789") >> }

\* root.nsmap of a serialization: the namespace as default, or under a prefix
Bindings ==
    { << [key |-> NULL, value |-> IrsUri] >>,
      << [key |-> "irs", value |-> IrsUri] >>,
      << [key |-> "efile", value |-> IrsUri] >>,
      << >> }

\* the bindings a tree can be serialized with: one for its namespace when
\* it has one, none when it has not
Serializes(nodes, nsmap) ==
    (\E n \in 1..Len(nodes) : nodes[n].ns # NULL) <=> nsmap # << >>

\* the location expressions of the concordance
LocateXPaths ==
    { "/Return/ReturnHeader/EIN",
      "/irs:Return/irs:ReturnHeader/irs:EIN",
      "/efile:Return/efile:ReturnHeader/efile:EIN",
      "/irs:Return/irs:ReturnHeader/irs:TaxYr",
      "/Return/ReturnHeader/TaxYr" }

\* a transformer whose concordance declares one variable at xpath
LocatingTransformer(xpath) ==
    LoadConcordance([exists |-> TRUE, columns |-> AllColumns,
                     rows |-> << ConcordanceEntry("EIN", xpath, "text", "return_info", "ONE") >>]).t

InitLocate ==
    /\ InitLoader
    /\ InitDriverOff
    /\ InitPoolOff
    /\ InitTransformOff
    /\ InitDetectOff
    /\ InitConvertOff
    /\ InitFieldsOff
    /\ InitRunOff
    /\ \E xpath \in LocateXPaths : \E nodes \in LocateTrees :
       \E nsmap1 \in Bindings : \E nsmap2 \in Bindings :
          /\ Serializes(nodes, nsmap1) /\ Serializes(nodes, nsmap2)
          /\ located = [xpath |-> xpath, nodes |-> nodes,
                        nsmap |-> << nsmap1, nsmap2 >>,
                        value |-> << << >>, << >> >>, done |-> << FALSE, FALSE >>]

\* namespaces as _process_xml_file builds them from root.nsmap, then
\* self._extract_value_from_xml(root, 'EIN', namespaces) on serialization k
Locate(k) ==
    /\ located # << >>
    /\ ~located.done[k]
    /\ located' = [located EXCEPT
          !.done[k] = TRUE,
          !.value[k] = ExtractValueFromXml(LocatingTransformer(located.xpath), located.nodes,
                                           "EIN", Namespaces(located.nsmap[k]))]
    /\ UNCHANGED <<loaderVars, driverVars, poolVars, transformVars, detectVars, conversion, fieldstore, run>>

LocateInFirst == Locate(1)

LocateInSecond == Locate(2)

NextLocate ==
    \/ LocateInFirst
    \/ LocateInSecond

SpecLocate == InitLocate /\ [][NextLocate]_vars

-----------------------------------------------------------------------------
(* Properties *)

StoredGroupValues == db.repeating_group_values \cup tx.repeating_group_values

C3_ParentInSameFiling ==
    \A g \in db.repeating_groups :
        \/ g.parent_group_id = NoGroup
        \/ \E p \in db.repeating_groups :
            p.group_id = g.parent_group_id /\ p.filing_id = g.filing_id

\* C4: once a document has been loaded (any number of times, after any other
\* loads), the store holds exactly one organization row of its employer id
\* and exactly one filing row of its (employer id, tax period, form type),
\* and that row carries the document's filing_id.
C4_OneOrganizationOneFiling ==
    \A e \in Committed :
        LET m == e.doc.metadata IN
        /\ Cardinality({r \in db.organizations : r.ein = m.ein}) = 1
        /\ Cardinality({r \in db.filings : r.filing_id = m.filing_id}) = 1
        /\ \A r \in db.filings :
            (r.ein = m.ein /\ r.tax_period = m.tax_period /\ r.form_type = m.form_type)
                => r.filing_id = m.filing_id

\* the same document was transformed and loaded twice, the same filing was
\* loaded from another file too, and there is one row of each
C4_Witness ==
    /\ \E i, j \in 1..Len(hist.committed) :
        /\ i < j
        /\ hist.committed[i].doc = ProcessXmlFile(RawBase)[1]
        /\ hist.committed[j].doc = ProcessXmlFile(RawBase)[1]
    /\ \E e \in Committed : e.doc = ProcessXmlFile(RawAmended)[1]
    /\ Cardinality(db.filings) = 1
    /\ Cardinality(db.organizations) = 1

SameKey(r, v) == r.filing_id = v.filing_id /\ r.field_id = v.field_id

\* C5: filing_values holds at most one row per (filing_id, field_id), and the
\* row is the one built from the last value of that key in the latest
\* committed load that has one, null slots included.
C5_LastWriteWins ==
    /\ \A r1, r2 \in db.filing_values : SameKey(r1, r2) => r1 = r2
    /\ \A r \in db.filing_values :
        LET S == {i \in 1..Len(hist.committed) :
                    \E k \in 1..Len(FilingValuesOf(hist.committed[i].doc)) :
                        SameKey(r, FilingValuesOf(hist.committed[i].doc)[k])}
        IN /\ S # {}
           /\ LET vs == FilingValuesOf(hist.committed[Latest(S)].doc)
                  K == {k \in 1..Len(vs) : SameKey(r, vs[k])}
              IN r = FilingValueRow(vs[Latest(K)])

\* a numeric value was stored and a later load of the same key, which has a
\* text and no number, has replaced it
C5_Witness ==
    \E e \in Committed :
        /\ \E r \in e.before.filing_values : r.field_id = 1 /\ r.numeric_value = "1000000"
        /\ \E r \in db.filing_values :
            r.field_id = 1 /\ r.numeric_value = NULL /\ r.text_value = "n/a"

\* C6: after a load has committed, two of its values of the same group and
\* field with different instance_index are stored as two rows, each with its
\* own slots.
C6_RowsKeptApart ==
    \A e \in Committed :
        LET gv == GroupValuesOf(e.doc)
            map == hist.maps[e.load]
        IN \A i, j \in 1..Len(gv) :
            ( /\ i # j
              /\ gv[i].group_id \in DOMAIN map
              /\ gv[i].group_id = gv[j].group_id
              /\ gv[i].field_id = gv[j].field_id
              /\ "instance_index" \in DOMAIN gv[i] \cap DOMAIN gv[j]
              /\ gv[i].instance_index # gv[j].instance_index )
            => \E ri, rj \in db.repeating_group_values :
                /\ ri # rj
                /\ ri = GroupValueRow(gv[i], map)[1]
                /\ rj = GroupValueRow(gv[j], map)[1]

LastCommit == hist.committed[Len(hist.committed)]

\* an attribute that is null in the input keeps its stored non-null value
KeepsNonNull(before, after, input, attrs) ==
    \A a \in attrs : (Get(input, a) = NULL /\ before[a] # NULL) => after[a] = before[a]

\* C7: the latest committed load left every non-null attribute of an existing
\* organization and of an existing filing (object_id, form_version, tax_year)
\* unchanged where its input had none.
C7_AbsentKeepsStored ==
    hist.committed # << >> =>
        LET e == LastCommit IN
        /\ \A old \in e.before.organizations :
            old.ein = e.doc.organization.ein =>
                \E new \in db.organizations :
                    new.ein = old.ein /\ KeepsNonNull(old, new, e.doc.organization, OrgAttrs)
        /\ \A old \in e.before.filings :
            old.filing_id = e.doc.metadata.filing_id =>
                \E new \in db.filings :
                    /\ new.filing_id = old.filing_id
                    /\ KeepsNonNull(old, new, e.doc.metadata, {"object_id", "form_version", "tax_year"})

\* C8: whenever process_xml_files is between batches or has returned,
\* processed_files + failed_files equals the number of documents handed to
\* the transformer so far (each failed document counts once as failed).
C8_CountsAddUp ==
    dpc \in {"loop", "done"} =>
        stats.processed_files + stats.failed_files = Len(dispatched)

\* some required metadata field cannot be located in the document
MissingRequired(x) == x.EIN = NULL \/ x.TaxPeriodEndDt = NULL \/ x.ReturnTypeCd = NULL

\* the document parses and has a text for each required field
HasRequired(x) ==
    x.wellformed /\ ~Falsy(x.EIN) /\ ~Falsy(x.TaxPeriodEndDt) /\ ~Falsy(x.ReturnTypeCd)

\* the documents the loader was called with, by the file they come from
ReachedLoader == {hist.call[k].metadata.object_id : k \in 1..Len(hist.call)}

CompleteResult == {"metadata", "organization", "filing_values", "repeating_groups", "group_values", "xml_hash"}

\* C10: while a batch is with the loader, a file of the batch in which a
\* required metadata field cannot be located is not among the documents the
\* loader was called with, and a file that has all three required fields,
\* whether or not it has a form version or a submission timestamp, is among
\* them with a complete result.
C10_RequiredMetadata ==
    dpc = "load" =>
        /\ Len(hist.call) <= Len(batch)
        /\ \A i \in 1..Len(batch) :
            /\ MissingRequired(batch[i]) => batch[i].file \notin ReachedLoader
            /\ HasRequired(batch[i]) =>
                \E k \in 1..Len(hist.call) :
                    /\ hist.call[k].metadata.object_id = batch[i].file
                    /\ DOMAIN hist.call[k] = CompleteResult

\* a batch of a file without employer id and a file without form version
\* and timestamp: only the second has reached the loader, and has loaded
C10_Witness ==
    /\ dpc = "load"
    /\ pc = "idle"
    /\ \E i \in 1..Len(batch) : batch[i] = RawNoEIN
    /\ \E i \in 1..Len(batch) : batch[i] = RawAmended
    /\ ReachedLoader = {RawAmended.file}
    /\ \E r \in db.filings : r.object_id = RawAmended.file /\ r.form_version = "Unknown"

\* C9: a worker whose transaction has ended (on any exit path) has no
\* connection checked out of any pool.
C9_ConnectionReturned ==
    \A w \in Workers :
        (workers[w].wpc = "done" /\ workers[w].conn # << >>) =>
            workers[w].conn[1] \notin pool.used


-----------------------------------------------------------------------------
(* Transformer claims, checked under SpecTransform *)

\* what a transform result says about values and groups
ValuesAndGroups(r) ==
    IF r = << >> THEN << >>
    ELSE << [filing_values |-> r[1].filing_values,
             repeating_groups |-> r[1].repeating_groups,
             group_values |-> r[1].group_values] >>

\* C11: transforming a document gives the same result whatever the same
\* transformer instance transformed before, and no transform changes the
\* field tables the concordance gave the instance at construction.
C11_ResultIndependentOfHistory ==
    /\ \A i \in 1..Len(transformed) : \A j \in 1..Len(transformed) :
          transformed[i].doc = transformed[j].doc
              => ValuesAndGroups(transformed[i].result) = ValuesAndGroups(transformed[j].result)
    /\ tpc = "ready" => transformer = LoadConcordance(concordance).t


\* the rows of the concordance file that declare a variable: those with a
\* variable name and a location expression
DeclaredVariables ==
    IF ~concordance.exists \/ ~({"variable_name", "xpath"} \subseteq concordance.columns) THEN {}
    ELSE {k \in 1..Len(concordance.rows) :
            concordance.rows[k].variable_name # NULL /\ concordance.rows[k].xpath # NULL}

\* the location expression of the variable finds an element with a text
MatchesDocument(k, x) ==
    \E n \in SeqToSet(EvalXPath(x.nodes, ParseXPath(concordance.rows[k].xpath), Namespaces(x.nsmap))) :
        x.nodes[n].text # NULL /\ x.nodes[n].text # ""

\* the number of filing-value rows a result has for the variable
RowsFor(k, result) ==
    LET id == DictGet(LoadConcordance(concordance).t.field_ids, concordance.rows[k].variable_name)
    IN Cardinality({j \in 1..Len(result.filing_values) : result.filing_values[j].field_id = id})

IsMany(k) ==
    "rdb_relationship" \in concordance.columns /\ concordance.rows[k].rdb_relationship = "MANY"

\* C16: a ONE variable whose location expression matches an element with
\* text yields exactly one filing-value row with the variable's field id, a
\* variable without match yields none, and a MANY variable never yields one.
C16_ScalarRowPerMatchedVariable ==
    \A i \in 1..Len(transformed) :
        transformed[i].result # << >> =>
            \A k \in DeclaredVariables :
                RowsFor(k, transformed[i].result[1]) =
                    IF ~IsMany(k) /\ MatchesDocument(k, transformed[i].doc) THEN 1 ELSE 0


SlotNames == {"text_value", "numeric_value", "boolean_value", "date_value"}

PopulatedSlots(row) == {s \in SlotNames : row[s] # NULL}

\* the value rows of a result, filing values and group values alike
ValueRows(result) ==
    {result.filing_values[j] : j \in 1..Len(result.filing_values)}
        \cup {result.group_values[j] : j \in 1..Len(result.group_values)}

\* C17: every filing-value row and every group-value row the transformer
\* emits has exactly one of the four value slots populated, whatever the
\* declared type, and a variable without value in the document has no row.
C17_ExactlyOneSlot ==
    \A i \in 1..Len(transformed) :
        transformed[i].result # << >> =>
            /\ \A row \in ValueRows(transformed[i].result[1]) : Cardinality(PopulatedSlots(row)) = 1
            /\ \A k \in DeclaredVariables :
                  ~MatchesDocument(k, transformed[i].doc) => RowsFor(k, transformed[i].result[1]) = 0

\* a result with a parsed number, a number kept as text, a boolean, a date,
\* a value of an unknown type and a group value, and a result of a document
\* in which a declared variable has no value
C17_Witness ==
    /\ \E i \in 1..Len(transformed) :
          /\ transformed[i].result # << >>
          /\ \E row \in ValueRows(transformed[i].result[1]) : row.numeric_value = "1234.5"
          /\ \E row \in ValueRows(transformed[i].result[1]) : row.boolean_value # NULL
          /\ \E row \in ValueRows(transformed[i].result[1]) : row.date_value # NULL
          /\ \E row \in ValueRows(transformed[i].result[1]) : row.text_value = "feed people"
          /\ transformed[i].result[1].group_values # << >>
    /\ \E i \in 1..Len(transformed) :
          /\ transformed[i].result # << >>
          /\ \E row \in ValueRows(transformed[i].result[1]) : row.text_value = "n/a"
    /\ \E i \in 1..Len(transformed) :
          /\ transformed[i].result # << >>
          /\ \E k \in DeclaredVariables :
                /\ ~IsMany(k)
                /\ concordance.rows[k].rdb_table # "filing_values"
                /\ ~MatchesDocument(k, transformed[i].doc)


\* the file is missing, or has neither spelling of the variable-name column
\* or neither spelling of the location column
BadSource ==
    \/ ~concordance.exists
    \/ concordance.columns \cap {"variable_name", "VAR_NAME"} = {}
    \/ concordance.columns \cap {"xpath", "XPATH"} = {}

\* C20: with a missing concordance file or one without a required column,
\* construction fails with ConcordanceError and no document is processed; it
\* never completes with an empty registry.
C20_BadSourceFailsConstruction ==
    BadSource => /\ tpc \in {"new", "failed"}
                 /\ transformed = << >>


-----------------------------------------------------------------------------
(* Converter claims, checked under SpecConvert *)

\* the text left after removing everything but digits, sign and point
\* parses as a floating-point number
ParsesAsNumber(value) == ParsesAsFloat(Keep(value, Digits \cup {".", "-"}))

\* what the claim asks of a conversion with declared type numeric
NumericOrText(value, slots) ==
    IF ParsesAsNumber(value)
    THEN slots.numeric_value # NULL /\ slots.text_value = NULL
    ELSE slots.text_value = value /\ slots.numeric_value = NULL

\* C18: with declared type numeric, each of the two converters populates the
\* numeric slot and leaves the text slot absent when the stripped text
\* parses as a number, and otherwise keeps the raw text and leaves the
\* numeric slot absent.
C18_NumericOrTextInBothConverters ==
    (conversion # << >> /\ conversion.data_type = "numeric") =>
        /\ conversion.transformer # << >> =>
              NumericOrText(conversion.value, conversion.transformer[1])
        /\ conversion.utils # << >> =>
              NumericOrText(conversion.value, conversion.utils[1])


\* the row shape of a child: the set of local names of its children
Shape(nodes, child) == {nodes[g].name : g \in SeqToSet(ChildrenOf(nodes, child))}

\* the shape of some child recurs in another child of the container
ShapeRecurs(nodes, container) ==
    \E a, b \in SeqToSet(ChildrenOf(nodes, container)) :
        a # b /\ Shape(nodes, a) = Shape(nodes, b)

\* the element of a document with the given structural path
ElementAt(nodes, path) == CHOOSE n \in 1..Len(nodes) : GetPath(nodes, n) = path

\* C12: a container is confirmed as repeating group only if the row shape of
\* one of its children recurs in another child; a container with one child
\* or with children of all distinct shapes is never confirmed.
C12_ConfirmedOnlyIfShapeRecurs ==
    \A i \in 1..Len(transformed) :
        transformed[i].result # << >> =>
            \A j \in 1..Len(transformed[i].result[1].repeating_groups) :
                ShapeRecurs(transformed[i].doc.nodes,
                            ElementAt(transformed[i].doc.nodes,
                                      transformed[i].result[1].repeating_groups[j].xpath))


-----------------------------------------------------------------------------
(* Detector claims *)

\* q is a strict, segment-aligned prefix of p: the segments of q are the
\* first segments of p, and p has more
StrictSegmentPrefix(q, p) ==
    LET sq == SplitPath(q)
        sp == SplitPath(p)
    IN Len(sq) < Len(sp) /\ SubSeq(sp, 1, Len(sq)) = sq

\* the parent relation the claim describes, for a set of group paths
ExpectedHierarchy(paths) ==
    {<<p, q>> \in paths \X paths :
        /\ StrictSegmentPrefix(q, p)
        /\ \A r \in paths : StrictSegmentPrefix(r, p) => Len(r) <= Len(q)}

\* C13: build_group_hierarchy gives each group as parent the other group
\* whose path is the longest strict, segment-aligned prefix of its own path,
\* gives no parent to a group without such a prefix among the groups, and
\* the result is the same in whatever order the groups are listed.
C13_ParentIsLongestPrefix ==
    (search # << >> /\ search.pc = "built") =>
        {<<detector.group_hierarchy[i].key, detector.group_hierarchy[i].value>> :
            i \in 1..Len(detector.group_hierarchy)}
          = ExpectedHierarchy(SeqToSet(search.groups))

\* a child listed before its parent and grandparent: the closer one is chosen
C13_Witness ==
    /\ search # << >>
    /\ search.pc = "built"
    /\ search.groups = << "/a/b/c", "/a", "/a/b" >>
    /\ detector.group_hierarchy =
          << [key |-> "/a/b/c", value |-> "/a/b"], [key |-> "/a/b", value |-> "/a"] >>


\* C14: every group the nested search returns for a parent group lies
\* strictly inside the parent's subtree: the parent's path is a strict,
\* segment-aligned prefix of its path.
C14_NestedGroupsInsideParent ==
    search # << >> =>
        \A i \in 1..Len(search.returned) :
            StrictSegmentPrefix(search.returned[i].parent_xpath, search.returned[i].path)

\* C15: the nested search comes to its end, and every group it returns has
\* a nesting level no greater than the configured max depth.
C15_SearchEndsWithinDepth ==
    /\ <>(search.pc = "detected")
    /\ [](\A i \in 1..Len(search.returned) :
            search.returned[i].nesting_level <= detector.max_nesting_level)

\* a search with the default depth has ended after returning groups of the
\* deepest level allowed
C15_Witness ==
    /\ search # << >>
    /\ search.pc = "detected"
    /\ detector.max_nesting_level >= 3
    /\ \E i \in 1..Len(search.returned) :
          search.returned[i].nesting_level = detector.max_nesting_level

\* the rows _store_values would insert if each value carried the position
\* of its row among the children of the group
RowsByPosition(nodes, group) ==
    LET rows == ChildrenOf(nodes, group.element)
    IN {[group |-> group.path, field_name |-> nodes[g].name,
         value |-> Strip(nodes[g].text), instance_index |-> i - 1] :
            <<i, g>> \in {<<j, h>> \in (1..Len(rows)) \X (1..Len(nodes)) :
                            nodes[h].parent = rows[j] /\ HasText(nodes, h)}}

\* C19: each stored group value carries as instance_index the zero-based
\* position of its row among the children of the group, also when an
\* earlier row contributed no values.
C19_IndexIsRowPosition ==
    (search # << >> /\ search.pc = "done") =>
        SeqToSet(search.stored) =
            UNION {RowsByPosition(search.doc.nodes, search.top_level_groups[k]) :
                      k \in 1..Len(search.top_level_groups)}


-----------------------------------------------------------------------------
(* Loader results, empty documents, repeated loads *)

\* the number of the _load_filing call made for the i-th document of the
\* list load was called with
LoadOf(i) == loads - (Len(hist.call) - Len(queue)) + i

\* C21: load returns one result per input document, in input order: success
\* with the filing_id and the counts of the document only when that
\* document's load committed, error with the filing_id and an error text
\* when it did not, with nothing of it left on the connection; after an
\* error the next document is loaded.
C21_OneResultPerDocument ==
    /\ Len(results) <= Len(hist.call)
    /\ pc = "idle" => Len(results) = Len(hist.call)
    /\ pc \in {"idle", "begin"} => tx = db
    /\ \A i \in 1..Len(results) :
        LET d == hist.call[i]
            r == results[i]
            id == Get(GetDefault(d, "metadata", << >>), "filing_id")
        IN /\ r.status \in {"success", "error"}
           /\ ~Falsy(id) => r.filing_id = id
           /\ r.status = "success" =>
                /\ \E e \in Committed : e.load = LoadOf(i) /\ e.doc = d
                /\ r.filing_values_count = Len(FilingValuesOf(d))
                /\ r.repeating_groups_count = Len(GroupsOf(d))
                /\ r.group_values_count = Len(GroupValuesOf(d))
           /\ r.status = "error" =>
                /\ r.error # ""
                /\ ~\E e \in Committed : e.load = LoadOf(i)

\* a list of two documents: the first failed after writing rows, the second
\* was loaded and committed
C21_Witness ==
    /\ pc = "idle"
    /\ Len(hist.call) = 2
    /\ Len(results) = 2
    /\ results[1].status = "error"
    /\ results[1].error = "filing values"
    /\ results[2].status = "success"
    /\ \E e \in Committed : e.load = loads


-----------------------------------------------------------------------------
(* field_definitions under repeating-group stores *)

\* C22: once the stores that were started have returned, field_definitions
\* holds at most one row per field name and no store has failed on a field
\* name that was absent.
C22_OneRowPerFieldName ==
    (fieldstore # << >> /\ \A s \in Sessions : Session(s).pc = "idle") =>
        /\ \A i, j \in 1..Len(CommittedFieldDefinitions) :
              CommittedFieldDefinitions[i].name = CommittedFieldDefinitions[j].name => i = j
        /\ \A s \in Sessions : Session(s).result # "TypeError"


-----------------------------------------------------------------------------
(* Batch runs *)

\* the calls a driver makes for one document, in order
StepsOf(driver) ==
    IF driver = "processor" THEN << "extract", "transform", "load" >> ELSE << "transform", "load" >>

IsPrefix(s, t) == Len(s) <= Len(t) /\ SubSeq(t, 1, Len(s)) = s

\* C23: in one batch run every document found is a task of its own and each
\* of extract, transform and load is called at most once for it, in this
\* order; the call that failed is the last one made for the document, and
\* the document's result says success False and carries the error.
C23_AttemptedAtMostOnce ==
    run # << >> =>
        /\ \A t, u \in 1..Len(run.xml_files) : run.xml_files[t] = run.xml_files[u] => t = u
        /\ \A t \in 1..Len(run.xml_files) :
            /\ IsPrefix(run.steps[t], StepsOf(run.driver))
            /\ run.stage[t] \in {"returned", "collected"} =>
                /\ run.result[t] # << >>
                /\ run.result[t][1].success => run.steps[t] = StepsOf(run.driver)
                /\ ~run.result[t][1].success =>
                      run.result[t][1].error = run.steps[t][Len(run.steps[t])]
            /\ run.result[t] # << >> => run.stage[t] \in {"returned", "collected"}

\* BatchProcessor has finished a run in which one document failed in
\* transform and another was loaded
C23_Witness ==
    /\ run # << >> /\ run.driver = "processor" /\ run.phase = "done"
    /\ \E t, u \in 1..Len(run.xml_files) :
          /\ run.steps[t] = << "extract", "transform" >>
          /\ run.result[t] = << [success |-> FALSE, error |-> "transform"] >>
          /\ run.result[u] = << [success |-> TRUE] >>

\* the number of the batch's documents whose result says success, or failure
CountOf(r, k, success) ==
    Cardinality({t \in 1..Len(r.xml_files) :
                    /\ (k - 1) * r.batch_size < t /\ t <= k * r.batch_size
                    /\ r.result[t] # << >> /\ r.result[t][1].success = success})

\* C29: every batch result of BatchProcessor counts each document of the
\* batch once, as succeeded or as failed, whatever the order of completion:
\* files_succeeded + files_failed = files_processed = the size of the batch;
\* the batches are consecutive slices of the files found, and the totals of
\* process_directory are the sums of the batch counts.
C29_CountsAddUp ==
    (run # << >> /\ run.driver = "processor") =>
        /\ \A k \in 1..Len(run.results) :
            LET b == run.results[k] IN
            /\ b.files_processed = Min(run.batch_size, Len(run.xml_files) - (k - 1) * run.batch_size)
            /\ b.files_succeeded = CountOf(run, k, TRUE)
            /\ b.files_failed = CountOf(run, k, FALSE)
            /\ b.files_succeeded + b.files_failed = b.files_processed
        /\ run.phase = "done" =>
            /\ run.report.files_processed = Len(run.xml_files)
            /\ "files_succeeded" \in DOMAIN run.report =>
                /\ run.report.files_succeeded = SumOf(run.results, "files_succeeded")
                /\ run.report.files_failed = SumOf(run.results, "files_failed")
                /\ run.report.files_succeeded + run.report.files_failed = Len(run.xml_files)

\* a run of two batches: in the first the second document was counted
\* before the first; one document failed, two succeeded
C29_Witness ==
    /\ run # << >> /\ run.driver = "processor" /\ run.phase = "done"
    /\ Len(run.results) = 2
    /\ run.order = << 2, 1, 3 >>
    /\ run.report.files_succeeded = 2
    /\ run.report.files_failed = 1


\* C24: with a document limit, process_xml_files never hands more documents
\* to transform and load than the limit; the limit cuts the list before
\* dispatch and nothing else: the run ends with min(limit, files found)
\* documents dispatched, the whole batch that was dispatched went through
\* transform, and every document handed to the loader has its result before
\* the limit is looked at again.
C24_LimitTruncatesBeforeDispatch ==
    (dpc # "off" /\ max_files # 0) =>
        /\ Len(dispatched) <= max_files
        /\ dpc = "load" => hist.call = Transform(batch)
        /\ dpc \in {"loop", "done"} =>
            /\ pc = "idle"
            /\ Len(results) = Len(hist.call)
            /\ processed_count = Len(dispatched)
        /\ dpc = "done" => Len(dispatched) = Min(max_files, stats.total_files)

\* two files found, limit 1, batches of two: the batch was cut to one
\* document, which was loaded, and the run has ended
C24_Witness ==
    /\ dpc = "done"
    /\ max_files = 1
    /\ batch_size = 2
    /\ stats.total_files = 2
    /\ Len(dispatched) = 1
    /\ stats.processed_files = 1


\* the committed loads of document d
CommitsOf(d) == {e \in Committed : e.doc = d}

\* the rows a load inserted into repeating_groups for the i-th group of its
\* document, as the store holds them
GroupRowsOf(e, i) ==
    {r \in db.repeating_groups :
        /\ hist.owner[r.group_id] = e.load
        /\ r.group_id = hist.maps[e.load][GroupsOf(e.doc)[i].group_id]}

\* C25: a document that was loaded and committed k times has k rows in
\* repeating_groups for each of its groups, one per load, each under a group
\* id that the store did not hold before that load; the rows of an earlier
\* load and the values stored under them are still in the store.
C25_GroupRowsPerLoad ==
    \A e \in Committed :
        LET d == e.doc
            distinct == \A i, j \in 1..Len(GroupsOf(d)) :
                            GroupsOf(d)[i].group_id = GroupsOf(d)[j].group_id => i = j
        IN distinct =>
            /\ \A i \in 1..Len(GroupsOf(d)) :
                /\ Cardinality(GroupRowsOf(e, i)) = 1
                /\ \A r \in GroupRowsOf(e, i) :
                      ~\E b \in e.before.repeating_groups : b.group_id = r.group_id
                /\ Cardinality(UNION {GroupRowsOf(c, i) : c \in CommitsOf(d)})
                      = Cardinality(CommitsOf(d))
            /\ \A w \in hist.values :
                  w.load = e.load =>
                      \E r \in db.repeating_group_values :
                          /\ r.group_id = w.row.group_id
                          /\ r.field_id = w.row.field_id
                          /\ hist.owner[r.group_id] = e.load

\* the same document with a group was committed by two loads: the store
\* holds two rows for the group
C25_Witness ==
    \E e, c \in Committed :
        /\ e.doc = c.doc /\ e.load < c.load
        /\ GroupsOf(e.doc) # << >>
        /\ GroupRowsOf(e, 1) # {} /\ GroupRowsOf(c, 1) # {}
        /\ GroupRowsOf(e, 1) # GroupRowsOf(c, 1)
        /\ \E w \in hist.values : w.load = e.load


\* the files with all required metadata in which no scalar field is located
\* and no group is detected
FlatFiles ==
    {x \in RawDocs : x.wellformed /\ ExtractMetadata(x) # << >>
                        /\ x.scalars = << >> /\ x.groups = << >>}

\* d is what transform returned for a flat file
FlatResult(d) == \E x \in FlatFiles : ProcessXmlFile(x) = << d >>

\* what a committed load changed in the tables other than organizations and
\* filings: nothing at all, or nothing but the xml_metadata row of the filing
ValueTablesUnchanged(e) ==
    /\ db.filing_values = e.before.filing_values
    /\ db.repeating_groups = e.before.repeating_groups
    /\ db.repeating_group_values = e.before.repeating_group_values

MetadataRowOnly(e) ==
    \A r \in db.xml_metadata \ e.before.xml_metadata :
        r = [filing_id |-> e.doc.metadata.filing_id, xml_hash |-> e.doc.xml_hash]

\* transform returns a result for every flat file, with empty filing values,
\* groups and group values; its load fails only when the database does, and
\* otherwise commits the organization and the filing and reports success
\* with counts of zero
FlatIsSuccess ==
    /\ \A x \in FlatFiles :
          /\ ProcessXmlFile(x) # << >>
          /\ FilingValuesOf(ProcessXmlFile(x)[1]) = << >>
          /\ GroupsOf(ProcessXmlFile(x)[1]) = << >>
          /\ GroupValuesOf(ProcessXmlFile(x)[1]) = << >>
    /\ \A i \in 1..Len(results) :
          FlatResult(hist.call[i]) =>
              /\ results[i].status = "error" => faults > 0
              /\ results[i].status = "success" =>
                    /\ results[i].filing_values_count = 0
                    /\ results[i].repeating_groups_count = 0
                    /\ results[i].group_values_count = 0
    /\ (hist.committed # << >> /\ FlatResult(LastCommit.doc)) =>
          /\ \E r \in db.organizations : r.ein = LastCommit.doc.organization.ein
          /\ \E r \in db.filings : r.filing_id = LastCommit.doc.metadata.filing_id
          /\ ValueTablesUnchanged(LastCommit)

-----------------------------------------------------------------------------
(* The pool singleton *)

\* C30: get_instance builds at most one pool, every caller is given the same
\* pool, and no connection is handed back to a pool other than the one it
\* was taken from.
C30_OnePoolPerProcess ==
    pool # << >> =>
        /\ pool.created <= 1
        /\ \A w, v \in Workers :
              (workers[w].inst # NoPool /\ workers[v].inst # NoPool) =>
                  workers[w].inst = workers[v].inst
        /\ \A w \in Workers : workers[w].outcome # "PoolError"


-----------------------------------------------------------------------------
(* Location expressions and namespace bindings *)

\* C26: a location expression locates the same value in two serializations
\* of a document that differ only in the prefix (or default declaration)
\* that binds the namespace of its elements.
C26_BindingIndependent ==
    (located # << >> /\ located.done[1] /\ located.done[2]) =>
        located.value[1] = located.value[2]

-----------------------------------------------------------------------------
(* Transform-local group ids *)

\* the group ids of the groups a transformed document emitted, in order
GroupIdsOf(result) == [j \in 1..Len(result.repeating_groups) |-> result.repeating_groups[j].group_id]

\* C28: in every transformed document the group ids of the emitted groups are
\* exactly 1, 2, ..., n, each once, n being the number of groups of that
\* document, whatever the instance transformed before; and every emitted
\* group value carries the group id of a group of the same document.
C28_GroupIdsSequential ==
    \A i \in 1..Len(transformed) :
        transformed[i].result # << >> =>
            LET result == transformed[i].result[1]
                ids == GroupIdsOf(result)
            IN /\ {ids[j] : j \in 1..Len(ids)} = 1..Len(ids)
               /\ \A j, k \in 1..Len(ids) : ids[j] = ids[k] => j = k
               /\ \A v \in 1..Len(result.group_values) :
                    \E j \in 1..Len(ids) : ids[j] = result.group_values[v].group_id

\* two documents transformed by one instance, the first with two groups and a
\* value of the second group, the second with a group of its own
C28_Witness ==
    /\ Len(transformed) = 2
    /\ transformed[1].result # << >>
    /\ transformed[2].result # << >>
    /\ Len(transformed[1].result[1].repeating_groups) = 2
    /\ \E v \in 1..Len(transformed[1].result[1].group_values) :
            transformed[1].result[1].group_values[v].group_id = 2
    /\ Len(transformed[2].result[1].repeating_groups) >= 1
    /\ transformed[2].result[1].group_values # << >>

====
